---- MODULE Spec2Model ----
(***************************************************************************)
(* Verification model of lark-base-importer: the field-name normalizer,    *)
(* the field reconciliation matcher (src/lib/lark.ts), the import route    *)
(* (src/app/api/import/route.ts), the wizard's handleImport                *)
(* (src/app/page.tsx) and the chunked batch writer batchCreateRecords.     *)
(*                                                                         *)
(* A JavaScript string is a sequence of character tokens:                  *)
(*   "a" "b"  ASCII letters            "Fa"  FULLWIDTH LATIN SMALL A       *)
(*   "SP"     U+0020 space             "ISP" U+3000 ideographic space      *)
(*   "TAB"    U+0009 tab               "ZW"  U+200B zero width space       *)
(*   "CM"     U+0301 combining acute   "aCM" U+00E1 a with acute           *)
(*   "LP"     U+0028 (                 "FLP" U+FF08 fullwidth (            *)
(*   "_"      the ASCII text "_raw_json" (one token)                       *)
(***************************************************************************)
EXTENDS Integers, Sequences, FiniteSets, TLC

\* ------------------------------------------------------------------ bounds
MaxStrLen == 3
MaxExisting == 3
MaxIncoming == 3
MaxChunks == 3
MaxUploadRecords == 2
\* calls of handleImport in one session of the wizard
MaxImports == 2

\* ------------------------------------------------------- program constants
\* lark.ts batchCreateRecords: const BATCH_SIZE = 500
BATCH_SIZE == 500

\* ------------------------------------------------------------- characters
Chars == {"a", "b", "Fa", "SP", "ISP", "TAB", "ZW", "CM", "aCM", "LP", "FLP"}

RECURSIVE StringsUpTo(_)
StringsUpTo(n) ==
  IF n = 0 THEN {<<>>}
  ELSE LET shorter == StringsUpTo(n - 1)
       IN shorter \cup {Append(s, c) : s \in {t \in shorter : Len(t) = n - 1}, c \in Chars}

\* String.prototype.normalize('NFKC'), step 1: compatibility decomposition
Decompose(c) ==
  CASE c = "Fa"  -> <<"a">>
    [] c = "ISP" -> <<"SP">>
    [] c = "FLP" -> <<"LP">>
    [] c = "aCM" -> <<"a", "CM">>
    [] OTHER     -> <<c>>

RECURSIVE DecomposeAll(_)
DecomposeAll(s) ==
  IF s = <<>> THEN <<>> ELSE Decompose(Head(s)) \o DecomposeAll(Tail(s))

\* String.prototype.normalize('NFKC'), step 2: canonical composition.
\* U+0061 U+0301 is the only composable pair of the alphabet.
RECURSIVE ComposeAll(_)
ComposeAll(s) ==
  IF Len(s) < 2 THEN s
  ELSE IF s[1] = "a" /\ s[2] = "CM"
       THEN <<"aCM">> \o ComposeAll(SubSeq(s, 3, Len(s)))
       ELSE <<s[1]>> \o ComposeAll(Tail(s))

NFKC(s) == ComposeAll(DecomposeAll(s))

\* the class [\u200B\u200C\u200D\u200E\u200F\uFEFF\u00AD] removed by the second step
ZeroWidth == {"ZW"}

\* the class \s of a JavaScript regular expression (also what trim() removes)
Whitespace == {"SP", "ISP", "TAB"}

RECURSIVE RemoveAll(_, _)
RemoveAll(s, set) ==
  IF s = <<>> THEN <<>>
  ELSE IF Head(s) \in set THEN RemoveAll(Tail(s), set)
       ELSE <<Head(s)>> \o RemoveAll(Tail(s), set)

\* s.replace(/from/g, to) for a one-character pattern
RECURSIVE ReplaceAll(_, _, _)
ReplaceAll(s, from, to) ==
  IF s = <<>> THEN <<>>
  ELSE <<IF Head(s) = from THEN to ELSE Head(s)>> \o ReplaceAll(Tail(s), from, to)

\* s.replace(/\s+/g, ' ')
RECURSIVE CollapseWhitespace(_)
CollapseWhitespace(s) ==
  IF s = <<>> THEN <<>>
  ELSE IF Head(s) \in Whitespace
       THEN IF Len(s) >= 2 /\ s[2] \in Whitespace
            THEN CollapseWhitespace(Tail(s))
            ELSE <<"SP">> \o CollapseWhitespace(Tail(s))
       ELSE <<Head(s)>> \o CollapseWhitespace(Tail(s))

RECURSIVE TrimStart(_)
TrimStart(s) ==
  IF s # <<>> /\ Head(s) \in Whitespace THEN TrimStart(Tail(s)) ELSE s

RECURSIVE TrimEnd(_)
TrimEnd(s) ==
  IF s # <<>> /\ s[Len(s)] \in Whitespace THEN TrimEnd(SubSeq(s, 1, Len(s) - 1)) ELSE s

\* String.prototype.trim()
Trim(s) == TrimEnd(TrimStart(s))

\* lark.ts normalizeFieldName
normalizeFieldName(name) ==
  Trim(CollapseWhitespace(ReplaceAll(ReplaceAll(RemoveAll(NFKC(name), ZeroWidth),
       "FLP", "LP"), "ISP", "SP")))

\* ------------------------------------------------------ JavaScript Map
\* Map.prototype.get of a missing key, and an unset optional value
Undefined == <<"undefined">>

EmptyMap == [k \in {} |-> Undefined]

MapHas(m, k) == k \in DOMAIN m

MapGet(m, k) == IF k \in DOMAIN m THEN m[k] ELSE Undefined

\* Map.prototype.set: a later set of the same key replaces the value
MapSet(m, k, v) == [x \in DOMAIN m \cup {k} |-> IF x = k THEN v ELSE m[x]]

\* truthiness of a string-or-undefined value
Truthy(v) == v # Undefined /\ v # <<>>

\* ------------------------------------------------ createFieldNameMapping
\* lark.ts createFieldNameMapping: the loop over existingFields, from the
\* mapping built so far
RECURSIVE createFieldNameMappingLoop(_, _)
createFieldNameMappingLoop(existingFields, mapping) ==
  IF existingFields = <<>> THEN mapping
  ELSE LET field == Head(existingFields)
           normalizedName == normalizeFieldName(field.field_name)
       IN createFieldNameMappingLoop(Tail(existingFields),
            MapSet(mapping, normalizedName, field.field_name))

createFieldNameMapping(existingFields) ==
  createFieldNameMappingLoop(existingFields, EmptyMap)

\* ------------------------------------------ validateFieldsAgainstExisting
\* lark.ts validateFieldsAgainstExisting, first loop: exactMap
RECURSIVE buildExactMap(_, _)
buildExactMap(existingFields, exactMap) ==
  IF existingFields = <<>> THEN exactMap
  ELSE LET field == Head(existingFields)
       IN buildExactMap(Tail(existingFields),
            MapSet(exactMap, field.field_name, field.field_name))

\* faulty variant: keeps the first field seen for a normalized name
RECURSIVE buildNormalizedMap_firstWins(_, _)
buildNormalizedMap_firstWins(existingFields, normalizedMap) ==
  IF existingFields = <<>> THEN normalizedMap
  ELSE LET field == Head(existingFields)
           normalizedExisting == normalizeFieldName(field.field_name)
           key == IF Truthy(field.normalized_name) THEN field.normalized_name
                  ELSE normalizedExisting
       IN buildNormalizedMap_firstWins(Tail(existingFields),
            IF MapHas(normalizedMap, key) THEN normalizedMap
            ELSE MapSet(normalizedMap, key, field.field_name))

\* lark.ts validateFieldsAgainstExisting, first loop: normalizedMap
RECURSIVE buildNormalizedMap(_, _)
buildNormalizedMap(existingFields, normalizedMap) ==
  IF existingFields = <<>> THEN normalizedMap
  ELSE LET field == Head(existingFields)
           normalizedExisting == normalizeFieldName(field.field_name)
           key == IF Truthy(field.normalized_name) THEN field.normalized_name
                  ELSE normalizedExisting
       IN buildNormalizedMap(Tail(existingFields),
            MapSet(normalizedMap, key, field.field_name))

EmptyValidationResult ==
  [exactMatches |-> <<>>, similarMatches |-> <<>>, newFields |-> <<>>]

\* faulty variant: tests the similar branch with "if" instead of "else if"
classifyField_noElse(result, jsonField, exactMap, normalizedMap) ==
  LET normalizedJsonField == normalizeFieldName(jsonField)
      normalizedMatchedField == MapGet(normalizedMap, normalizedJsonField)
      isExact == /\ Truthy(normalizedMatchedField)
                 /\ MapHas(exactMap, jsonField)
                 /\ normalizedMatchedField = jsonField
      r1 == IF isExact
            THEN [result EXCEPT !.exactMatches =
                    Append(@, [jsonField |-> jsonField, existingField |-> jsonField])]
            ELSE result
  IN IF Truthy(normalizedMatchedField)
     THEN [r1 EXCEPT !.similarMatches =
             Append(@, [jsonField |-> jsonField,
                        existingField |-> normalizedMatchedField,
                        normalizedName |-> normalizedJsonField])]
     ELSE [r1 EXCEPT !.newFields = Append(@, jsonField)]

\* lark.ts validateFieldsAgainstExisting, body of the loop over jsonFields
classifyField(result, jsonField, exactMap, normalizedMap) ==
  LET normalizedJsonField == normalizeFieldName(jsonField)
      normalizedMatchedField == MapGet(normalizedMap, normalizedJsonField)
  IN IF /\ Truthy(normalizedMatchedField)
        /\ MapHas(exactMap, jsonField)
        /\ normalizedMatchedField = jsonField
     THEN [result EXCEPT !.exactMatches =
             Append(@, [jsonField |-> jsonField, existingField |-> jsonField])]
     ELSE IF Truthy(normalizedMatchedField)
     THEN [result EXCEPT !.similarMatches =
             Append(@, [jsonField |-> jsonField,
                        existingField |-> normalizedMatchedField,
                        normalizedName |-> normalizedJsonField])]
     ELSE [result EXCEPT !.newFields = Append(@, jsonField)]

RECURSIVE classifyFields(_, _, _, _)
classifyFields(result, jsonFields, exactMap, normalizedMap) ==
  IF jsonFields = <<>> THEN result
  ELSE classifyFields(classifyField(result, Head(jsonFields), exactMap, normalizedMap),
                      Tail(jsonFields), exactMap, normalizedMap)

validateFieldsAgainstExisting(jsonFields, existingFields) ==
  classifyFields(EmptyValidationResult, jsonFields,
                 buildExactMap(existingFields, EmptyMap),
                 buildNormalizedMap(existingFields, EmptyMap))

\* ------------------------------------------------------- JavaScript values
\* A value is [t |-> typeof-like tag, v |-> its text]: t is one of "null",
\* "undefined", "string", "number", "boolean", "array", "object", and "link"
\* for the {link, text} object written to a URL field.  v is the string itself,
\* the decimal text of a number, "true"/"false", or the JSON text of an
\* array/object.
JsNull == [t |-> "null", v |-> ""]
JsUndefined == [t |-> "undefined", v |-> ""]
JsString(text) == [t |-> "string", v |-> text]
JsNumber(text) == [t |-> "number", v |-> text]
JsBoolean(text) == [t |-> "boolean", v |-> text]
JsArray(text) == [t |-> "array", v |-> text]
JsObject(text) == [t |-> "object", v |-> text]

\* value.trim() === '' for the strings of the model
BlankStrings == {"", " "}

\* new URL(value).protocol, "throws" when the constructor throws
\* (the parser strips leading spaces and lower-cases the scheme; a special
\* scheme with an empty host, or no scheme at all, throws)
UrlProtocol(text) ==
  CASE text = "https://a.b"  -> "https:"
    [] text = " https://a.b" -> "https:"
    [] text = "HTTP://A.B"   -> "http:"
    [] text = "ftp://a.b"    -> "ftp:"
    [] OTHER                 -> "throws"

\* Number(value) of a string, "NaN" when it is not numeric
StringToNumber(text) ==
  CASE text = "21"   -> "21"
    [] text = " 21 " -> "21"
    [] text = ""     -> "0"
    [] text = " "    -> "0"
    [] OTHER         -> "NaN"

\* JSON.stringify(value) of an array or object: its JSON text
JsonStringify(value) == value.v

\* String(value): the text of a primitive; arrays and objects lose their JSON form
StringOf(value) ==
  CASE value.t = "object" -> "[object Object]"
    [] value.t = "array"  -> "x,y"
    [] OTHER              -> value.v

\* A JavaScript object is the sequence of its [key, value] entries in insertion
\* order (the order of Object.entries and Object.keys).
ObjKeys(obj) == [i \in DOMAIN obj |-> obj[i].key]

ObjHas(obj, k) == \E i \in DOMAIN obj : obj[i].key = k

ObjGet(obj, k) ==
  IF ObjHas(obj, k) THEN obj[CHOOSE i \in DOMAIN obj : obj[i].key = k].value
  ELSE JsUndefined

\* obj[k] = v: an existing key keeps its position
ObjSet(obj, k, v) ==
  IF ObjHas(obj, k)
  THEN [i \in DOMAIN obj |-> IF obj[i].key = k THEN [key |-> k, value |-> v] ELSE obj[i]]
  ELSE Append(obj, [key |-> k, value |-> v])

\* faulty variant: accepts every protocol
isValidUrl_anyProtocol(value) ==
  IF value.t # "string" THEN FALSE
  ELSE IF value.v \in BlankStrings THEN FALSE
  ELSE UrlProtocol(value.v) # "throws"

\* lark.ts isValidUrl
isValidUrl(value) ==
  IF value.t # "string" THEN FALSE
  ELSE IF value.v \in BlankStrings THEN FALSE
  ELSE UrlProtocol(value.v) \in {"http:", "https:"}

\* faulty variant: String(value) for arrays and objects too
processFieldEntry_stringifyAll(processed, key, value, fieldMapping, urlFieldNames, numberFieldNames) ==
  LET normalizedKey == normalizeFieldName(key)
      mapped == MapGet(fieldMapping, normalizedKey)
      actualKey == IF Truthy(mapped) THEN mapped ELSE key
  IN IF value.t \in {"null", "undefined"} \/ (value.t = "string" /\ value.v = "")
     THEN processed
     ELSE IF actualKey \in urlFieldNames
     THEN IF ~isValidUrl(value) THEN processed
          ELSE ObjSet(processed, actualKey, [t |-> "link", v |-> StringOf(value)])
     ELSE IF actualKey \in numberFieldNames
     THEN IF value.t = "number" THEN ObjSet(processed, actualKey, value)
          ELSE IF /\ value.t = "string"
                  /\ StringToNumber(value.v) # "NaN"
                  /\ value.v \notin BlankStrings
               THEN ObjSet(processed, actualKey, JsNumber(StringToNumber(value.v)))
               ELSE processed
     ELSE ObjSet(processed, actualKey, JsString(StringOf(value)))

\* faulty variant: no test for whitespace-only strings in a number field
processFieldEntry_blankNumber(processed, key, value, fieldMapping, urlFieldNames, numberFieldNames) ==
  LET normalizedKey == normalizeFieldName(key)
      mapped == MapGet(fieldMapping, normalizedKey)
      actualKey == IF Truthy(mapped) THEN mapped ELSE key
  IN IF value.t \in {"null", "undefined"} \/ (value.t = "string" /\ value.v = "")
     THEN processed
     ELSE IF actualKey \in urlFieldNames
     THEN IF ~isValidUrl(value) THEN processed
          ELSE ObjSet(processed, actualKey, [t |-> "link", v |-> StringOf(value)])
     ELSE IF actualKey \in numberFieldNames
     THEN IF value.t = "number" THEN ObjSet(processed, actualKey, value)
          ELSE IF /\ value.t = "string"
                  /\ StringToNumber(value.v) # "NaN"
               THEN ObjSet(processed, actualKey, JsNumber(StringToNumber(value.v)))
               ELSE processed
     ELSE IF value.t \in {"array", "object"}
     THEN ObjSet(processed, actualKey, JsString(JsonStringify(value)))
     ELSE ObjSet(processed, actualKey, JsString(StringOf(value)))

\* lark.ts processFieldValues, body of the loop over Object.entries(fields)
processFieldEntry(processed, key, value, fieldMapping, urlFieldNames, numberFieldNames) ==
  LET normalizedKey == normalizeFieldName(key)
      mapped == MapGet(fieldMapping, normalizedKey)
      actualKey == IF Truthy(mapped) THEN mapped ELSE key
  IN IF value.t \in {"null", "undefined"} \/ (value.t = "string" /\ value.v = "")
     THEN processed
     ELSE IF actualKey \in urlFieldNames
     THEN IF ~isValidUrl(value) THEN processed
          ELSE ObjSet(processed, actualKey, [t |-> "link", v |-> StringOf(value)])
     ELSE IF actualKey \in numberFieldNames
     THEN IF value.t = "number" THEN ObjSet(processed, actualKey, value)
          ELSE IF /\ value.t = "string"
                  /\ StringToNumber(value.v) # "NaN"
                  /\ value.v \notin BlankStrings
               THEN ObjSet(processed, actualKey, JsNumber(StringToNumber(value.v)))
               ELSE processed
     ELSE IF value.t \in {"array", "object"}
     THEN ObjSet(processed, actualKey, JsString(JsonStringify(value)))
     ELSE ObjSet(processed, actualKey, JsString(StringOf(value)))

RECURSIVE processFieldEntries(_, _, _, _, _)
processFieldEntries(processed, entries, fieldMapping, urlFieldNames, numberFieldNames) ==
  IF entries = <<>> THEN processed
  ELSE processFieldEntries(
         processFieldEntry(processed, Head(entries).key, Head(entries).value,
                           fieldMapping, urlFieldNames, numberFieldNames),
         Tail(entries), fieldMapping, urlFieldNames, numberFieldNames)

processFieldValues(fields, fieldMapping, urlFieldNames, numberFieldNames) ==
  processFieldEntries(<<>>, fields, fieldMapping, urlFieldNames, numberFieldNames)

\* ---------------------------------------------------- batchCreateRecords
EmptyBatchCreateResult ==
  [successCount |-> 0, failedCount |-> 0, recordIds |-> <<>>, errors |-> <<>>]

Min(x, y) == IF x <= y THEN x ELSE y

\* faulty variant: takes one record more than BATCH_SIZE
BatchSlice_offByOne(recs, start) ==
  SubSeq(recs, start + 1, Min(start + BATCH_SIZE + 1, Len(recs)))

\* records.slice(start, start + BATCH_SIZE), start counted from 0
BatchSlice(recs, start) == SubSeq(recs, start + 1, Min(start + BATCH_SIZE, Len(recs)))

\* the outcomes of one bulk-create call for a batch of len records:
\*   "throw"     fetch or safeJsonParse throws (transport error, non-JSON body)
\*   "error"     the body has a non-zero code
\*   "ok"        code 0 and data.records lists n created records
\*   "norecords" code 0 and no data.records
\*   "nullentry" code 0 and data.records has n entries, one of them null
BulkResponses(len) ==
  {[kind |-> "throw", msg |-> "fetch failed", n |-> 0],
   [kind |-> "error", msg |-> "Lark API Error: FieldNameNotFound (code: 1254045)", n |-> 0],
   [kind |-> "norecords", msg |-> "", n |-> 0],
   [kind |-> "nullentry", msg |-> "Cannot read properties of null", n |-> len]}
  \cup {[kind |-> "ok", msg |-> "", n |-> k] : k \in {len, len - 1}}

\* result.errors.push({index: start + j, error}) for every j of the batch
PushBatchErrors(errors, start, len, message) ==
  errors \o [j \in 1..len |-> [index |-> start + (j - 1), error |-> message]]

\* faulty variant: counts a failed chunk as BATCH_SIZE records, whatever its length
ApplyBulkResponse_fullChunk(res, start, len, response) ==
  CASE response.kind = "error" ->
         [res EXCEPT !.errors = PushBatchErrors(@, start, BATCH_SIZE, response.msg),
                     !.failedCount = @ + BATCH_SIZE]
    [] response.kind = "ok" ->
         [res EXCEPT !.successCount = @ + response.n,
                     !.recordIds = @ \o [j \in 1..response.n |-> <<start, j>>]]
    [] response.kind = "norecords" -> res
    [] response.kind = "nullentry" ->
         [res EXCEPT !.successCount = @ + response.n,
                     !.errors = PushBatchErrors(@, start, BATCH_SIZE, response.msg),
                     !.failedCount = @ + BATCH_SIZE]
    [] response.kind = "throw" ->
         [res EXCEPT !.errors = PushBatchErrors(@, start, BATCH_SIZE, response.msg),
                     !.failedCount = @ + BATCH_SIZE]

\* lark.ts batchCreateRecords, the try/catch of one chunk: the result after the
\* call for the batch of len records starting at start resolved with response
ApplyBulkResponse(res, start, len, response) ==
  CASE response.kind = "error" ->
         [res EXCEPT !.errors = PushBatchErrors(@, start, len, response.msg),
                     !.failedCount = @ + len]
    [] response.kind = "ok" ->
         [res EXCEPT !.successCount = @ + response.n,
                     !.recordIds = @ \o [j \in 1..response.n |-> <<start, j>>]]
    [] response.kind = "norecords" -> res
    [] response.kind = "nullentry" ->
         \* successCount is added before records.map throws on the null entry
         [res EXCEPT !.successCount = @ + response.n,
                     !.errors = PushBatchErrors(@, start, len, response.msg),
                     !.failedCount = @ + len]
    [] response.kind = "throw" ->
         [res EXCEPT !.errors = PushBatchErrors(@, start, len, response.msg),
                     !.failedCount = @ + len]

\* ------------------------------------------------------- inferFieldType
\* /^https?:\/\//.test(value) for the strings of the model
MatchesHttpPrefix(text) == text \in {"https://a.b", "http://"}

\* lark.ts inferFieldType: the Lark type number of a value
inferFieldType(value) ==
  IF value.t \in {"null", "undefined"} THEN 1
  ELSE IF value.t = "number" THEN 2
  ELSE IF value.t = "boolean" THEN 7
  ELSE IF value.t = "array" THEN 1
  ELSE IF value.t = "object" THEN 1
  ELSE IF value.t = "string" /\ MatchesHttpPrefix(value.v) THEN 15
  ELSE 1

\* import/route.ts larkTypeToNumber
larkTypeToNumber(type) ==
  CASE type = "text"     -> 1
    [] type = "number"   -> 2
    [] type = "checkbox" -> 7
    [] type = "url"      -> 15
    [] type = "datetime" -> 5
    [] type = "phone"    -> 13
    [] OTHER             -> 1

\* --------------------------------------------------- import/route.ts POST
\* Set.prototype.add on an insertion-ordered set kept as a sequence
SeqAdd(seq, e) == IF \E k \in DOMAIN seq : seq[k] = e THEN seq ELSE Append(seq, e)

\* route.ts step 4, one key of one record: normalizedToIncoming keeps the first
\* spelling seen for a normalized name, normalizedToAliases collects them all
\* faulty variant: keys the two maps by the literal spelling
collectKey_literalKey(acc, key) ==
  LET normalizedKey == key
      aliases == IF MapHas(acc.normalizedToAliases, normalizedKey)
                 THEN acc.normalizedToAliases[normalizedKey] ELSE <<>>
  IN [allFieldNames |-> acc.allFieldNames \cup {key},
      normalizedToIncoming |->
        IF ObjHas(acc.normalizedToIncoming, normalizedKey)
        THEN acc.normalizedToIncoming
        ELSE ObjSet(acc.normalizedToIncoming, normalizedKey, key),
      normalizedToAliases |->
        MapSet(acc.normalizedToAliases, normalizedKey, SeqAdd(aliases, key))]

collectKey(acc, key) ==
  LET normalizedKey == normalizeFieldName(key)
      aliases == IF MapHas(acc.normalizedToAliases, normalizedKey)
                 THEN acc.normalizedToAliases[normalizedKey] ELSE <<>>
  IN [allFieldNames |-> acc.allFieldNames \cup {key},
      normalizedToIncoming |->
        IF ObjHas(acc.normalizedToIncoming, normalizedKey)
        THEN acc.normalizedToIncoming
        ELSE ObjSet(acc.normalizedToIncoming, normalizedKey, key),
      normalizedToAliases |->
        MapSet(acc.normalizedToAliases, normalizedKey, SeqAdd(aliases, key))]

RECURSIVE collectKeys(_, _)
collectKeys(acc, keys) ==
  IF keys = <<>> THEN acc ELSE collectKeys(collectKey(acc, Head(keys)), Tail(keys))

RECURSIVE collectRecords(_, _)
collectRecords(acc, recs) ==
  IF recs = <<>> THEN acc
  ELSE IF Len(recs) = 1 THEN collectKeys(acc, ObjKeys(Head(recs)))
  ELSE \* records.forEach, evaluated half by half to keep the nesting shallow;
       \* the test makes the first half's result a value before it is passed on
       LET half == Len(recs) \div 2
           left == collectRecords(acc, SubSeq(recs, 1, half))
       IN IF left = left
          THEN collectRecords(left, SubSeq(recs, half + 1, Len(recs)))
          ELSE left

\* route.ts step 4: the unique field names of all records
collectFieldNames(recs) ==
  collectRecords([allFieldNames |-> {}, normalizedToIncoming |-> <<>>,
                  normalizedToAliases |-> EmptyMap], recs)

\* route.ts step 5: the first spelling of every normalized name that the table
\* does not have yet, in insertion order of normalizedToIncoming
RECURSIVE computeMissingFields(_, _)
computeMissingFields(normalizedToIncoming, existingNormalizedNames) ==
  IF normalizedToIncoming = <<>> THEN <<>>
  ELSE LET entry == Head(normalizedToIncoming)
           rest == computeMissingFields(Tail(normalizedToIncoming), existingNormalizedNames)
       IN IF entry.key \in existingNormalizedNames THEN rest
          ELSE <<entry.value>> \o rest

\* route.ts: the first alias, in insertion order, with a caller-selected type
RECURSIVE selectedTypeEntry(_, _)
selectedTypeEntry(aliases, fieldTypes) ==
  IF aliases = <<>> THEN "none"
  ELSE IF MapHas(fieldTypes, Head(aliases)) THEN fieldTypes[Head(aliases)]
       ELSE selectedTypeEntry(Tail(aliases), fieldTypes)

\* route.ts: the first alias of one record whose value is not null/undefined
RECURSIVE firstValueOfRecord(_, _)
firstValueOfRecord(record, aliases) ==
  IF aliases = <<>> THEN JsNull
  ELSE LET value == ObjGet(record, Head(aliases))
       IN IF value.t \notin {"null", "undefined"} THEN value
          ELSE firstValueOfRecord(record, Tail(aliases))

\* route.ts: the first non-null value found scanning the records in order
RECURSIVE firstNonNullValue(_, _)
firstNonNullValue(recs, aliases) ==
  IF recs = <<>> THEN JsNull
  ELSE IF Len(recs) = 1 THEN firstValueOfRecord(Head(recs), aliases)
  ELSE \* the loop over records, evaluated half by half
       LET half == Len(recs) \div 2
           value == firstNonNullValue(SubSeq(recs, 1, half), aliases)
       IN IF value.t \notin {"null", "undefined"} THEN value
          ELSE firstNonNullValue(SubSeq(recs, half + 1, Len(recs)), aliases)

\* faulty variant: ignores the caller's selection and always infers
resolveFieldType_inferOnly(fieldName, recs, fieldTypes, normalizedToAliases) ==
  LET normalizedFieldName == normalizeFieldName(fieldName)
      aliases == IF MapHas(normalizedToAliases, normalizedFieldName)
                 THEN normalizedToAliases[normalizedFieldName] ELSE <<fieldName>>
  IN inferFieldType(firstNonNullValue(recs, aliases))

\* route.ts step 5: the type of the field to create
resolveFieldType(fieldName, recs, fieldTypes, normalizedToAliases) ==
  LET normalizedFieldName == normalizeFieldName(fieldName)
      aliases == IF MapHas(normalizedToAliases, normalizedFieldName)
                 THEN normalizedToAliases[normalizedFieldName] ELSE <<fieldName>>
      selected == selectedTypeEntry(aliases, fieldTypes)
  IN IF selected # "none" THEN larkTypeToNumber(selected)
     ELSE inferFieldType(firstNonNullValue(recs, aliases))

\* ------------------------------------------- page.tsx handleImport helpers
\* similarMappings value for "create as a new field"
Null == <<"null">>

\* the key of the field that stores the whole source object
RawJsonKey == <<"_">>

\* page.tsx transformRecord, body of the loop over Object.entries(data)
transformEntry(transformed, key, value, decision) ==
  IF MapHas(decision.similarMappings, key)
  THEN LET mappedField == decision.similarMappings[key]
       IN IF mappedField # Null /\ mappedField # Undefined
          THEN ObjSet(transformed, mappedField, value)
          ELSE ObjSet(transformed, key, value)
  ELSE ObjSet(transformed, key, value)

RECURSIVE transformEntries(_, _, _)
transformEntries(transformed, entries, decision) ==
  IF entries = <<>> THEN transformed
  ELSE transformEntries(
         transformEntry(transformed, Head(entries).key, Head(entries).value, decision),
         Tail(entries), decision)

\* page.tsx transformRecord
transformRecord(data, decision) == transformEntries(<<>>, data, decision)

\* page.tsx: {...transformed, _raw_json: JSON.stringify(r.data, null, 2)}
withRawJson(data, decision) ==
  ObjSet(transformRecord(data, decision), RawJsonKey, JsString("raw_json"))

\* ------------------------------------------------------------------ state
\* ------------------------------------------- JsonUploader.tsx: JSON texts
\* A JSON text is a sequence of characters, each a one-character string; the
\* invisible characters are the tokens "ZWSP" (U+200B), "ZWJ" (U+200D),
\* "LRM" (U+200E), "BOM" (U+FEFF), "NBSP" (U+00A0) and "SHY" (U+00AD).
Quote == "\""
Backslash == "\\"

\* the whitespace of the JSON grammar
JsonWhitespace == {" ", "\t", "\n", "\r"}

\* the characters the regular expression class \s matches
RegexWhitespace == JsonWhitespace \cup {"NBSP", "BOM"}

\* U+0000..U+001F, which may not appear raw in a JSON string
ControlChars == {"\t", "\n", "\r", "NUL"}

Digits == {"0", "1", "2", "3", "4", "5", "6", "7", "8", "9"}

HexDigits == Digits \cup {"a", "b", "c", "d", "e", "f", "A", "B", "C", "D", "E", "F"}

CharAt(text, p) == IF p \in DOMAIN text THEN text[p] ELSE ""

\* text.substring(p - 1) starts with the word
StartsWith(text, p, word) ==
  /\ p + Len(word) - 1 <= Len(text)
  /\ \A k \in DOMAIN word : text[p + k - 1] = word[k]

\* the position of the first character at or after p that is not in the class
RECURSIVE SkipClass(_, _, _)
SkipClass(text, p, class) ==
  IF p <= Len(text) /\ text[p] \in class THEN SkipClass(text, p + 1, class) ELSE p

\* -------------------------------------------------------------- JSON.parse
\* The result of parsing is [ok, value, pos]: pos is the position after the
\* value.  A value is [t |-> "string", chars], [t |-> "number", chars],
\* [t |-> "literal", chars], [t |-> "array", items] or
\* [t |-> "object", entries] with entries in insertion order.
ParseFail == [ok |-> FALSE, value |-> [t |-> "none"], pos |-> 0]

ParseOk(value, pos) == [ok |-> TRUE, value |-> value, pos |-> pos]

\* the character a two-character escape sequence denotes, "" if it is invalid
Unescape(ch) ==
  CASE ch = Quote     -> Quote
    [] ch = Backslash -> Backslash
    [] ch = "/"       -> "/"
    [] ch = "b"       -> "BS"
    [] ch = "f"       -> "FF"
    [] ch = "n"       -> "\n"
    [] ch = "r"       -> "\r"
    [] ch = "t"       -> "\t"
    [] OTHER          -> ""

\* the characters of a string literal from position p (after its opening quote)
RECURSIVE ParseStringBody(_, _, _)
ParseStringBody(text, p, acc) ==
  IF p > Len(text) THEN ParseFail
  ELSE IF text[p] = Quote THEN ParseOk([t |-> "string", chars |-> acc], p + 1)
  ELSE IF text[p] \in ControlChars THEN ParseFail
  ELSE IF text[p] = Backslash
  THEN IF p + 1 > Len(text) THEN ParseFail
       ELSE IF text[p + 1] = "u"
       THEN IF p + 5 <= Len(text) /\ \A k \in 2..5 : text[p + k] \in HexDigits
            THEN ParseStringBody(text, p + 6,
                   Append(acc, "\\u" \o text[p + 2] \o text[p + 3]
                                     \o text[p + 4] \o text[p + 5]))
            ELSE ParseFail
       ELSE IF Unescape(text[p + 1]) = "" THEN ParseFail
       ELSE ParseStringBody(text, p + 2, Append(acc, Unescape(text[p + 1])))
  ELSE ParseStringBody(text, p + 1, Append(acc, text[p]))

\* -?(0|[1-9][0-9]*)(\.[0-9]+)?([eE][+-]?[0-9]+)?
ParseNumber(text, p) ==
  LET intStart == IF CharAt(text, p) = "-" THEN p + 1 ELSE p
      intEnd == IF CharAt(text, intStart) = "0" THEN intStart + 1
                ELSE SkipClass(text, intStart, Digits)
      fracEnd == IF CharAt(text, intEnd) = "."
                 THEN SkipClass(text, intEnd + 1, Digits) ELSE intEnd
      expSign == IF CharAt(text, fracEnd + 1) \in {"+", "-"}
                 THEN fracEnd + 2 ELSE fracEnd + 1
      expEnd == IF CharAt(text, fracEnd) \in {"e", "E"}
                THEN SkipClass(text, expSign, Digits) ELSE fracEnd
  IN IF intEnd = intStart THEN ParseFail
     ELSE IF CharAt(text, intEnd) = "." /\ fracEnd = intEnd + 1 THEN ParseFail
     ELSE IF CharAt(text, fracEnd) \in {"e", "E"} /\ expEnd = expSign THEN ParseFail
     ELSE ParseOk([t |-> "number", chars |-> SubSeq(text, p, expEnd - 1)], expEnd)

Literals == {<<"t", "r", "u", "e">>, <<"f", "a", "l", "s", "e">>, <<"n", "u", "l", "l">>}

ParseLiteral(text, p) ==
  IF \E word \in Literals : StartsWith(text, p, word)
  THEN LET word == CHOOSE w \in Literals : StartsWith(text, p, w)
       IN ParseOk([t |-> "literal", chars |-> word], p + Len(word))
  ELSE ParseFail

RECURSIVE ParseValue(_, _)
RECURSIVE ParseElements(_, _, _)
RECURSIVE ParseMembers(_, _, _)

\* a value, after optional whitespace, at position p
ParseValue(text, p) ==
  LET q == SkipClass(text, p, JsonWhitespace)
      ch == CharAt(text, q)
      r == SkipClass(text, q + 1, JsonWhitespace)
  IN IF ch = Quote THEN ParseStringBody(text, q + 1, <<>>)
     ELSE IF ch = "[" THEN
       IF CharAt(text, r) = "]" THEN ParseOk([t |-> "array", items |-> <<>>], r + 1)
       ELSE ParseElements(text, q + 1, <<>>)
     ELSE IF ch = "{" THEN
       IF CharAt(text, r) = "}" THEN ParseOk([t |-> "object", entries |-> <<>>], r + 1)
       ELSE ParseMembers(text, q + 1, <<>>)
     ELSE IF ch = "-" \/ ch \in Digits THEN ParseNumber(text, q)
     ELSE ParseLiteral(text, q)

\* the elements of an array from position p, items being parsed already
ParseElements(text, p, items) ==
  LET element == ParseValue(text, p)
      q == SkipClass(text, element.pos, JsonWhitespace)
  IN IF ~element.ok THEN ParseFail
     ELSE IF CharAt(text, q) = "]"
     THEN ParseOk([t |-> "array", items |-> Append(items, element.value)], q + 1)
     ELSE IF CharAt(text, q) = ","
     THEN ParseElements(text, q + 1, Append(items, element.value))
     ELSE ParseFail

\* the members of an object from position p; a repeated key keeps its first
\* position and its last value
ParseMembers(text, p, entries) ==
  LET q == SkipClass(text, p, JsonWhitespace)
      key == IF CharAt(text, q) = Quote THEN ParseStringBody(text, q + 1, <<>>)
             ELSE ParseFail
      colon == SkipClass(text, key.pos, JsonWhitespace)
      member == IF key.ok /\ CharAt(text, colon) = ":" THEN ParseValue(text, colon + 1)
                ELSE ParseFail
      r == SkipClass(text, member.pos, JsonWhitespace)
      next == IF member.ok THEN ObjSet(entries, key.value.chars, member.value)
              ELSE entries
  IN IF ~member.ok THEN ParseFail
     ELSE IF CharAt(text, r) = "}"
     THEN ParseOk([t |-> "object", entries |-> next], r + 1)
     ELSE IF CharAt(text, r) = ","
     THEN ParseMembers(text, r + 1, next)
     ELSE ParseFail

\* JSON.parse(text): ParseFail when it throws a SyntaxError
JsonParse(text) ==
  LET parsed == ParseValue(text, 1)
  IN IF parsed.ok /\ SkipClass(text, parsed.pos, JsonWhitespace) > Len(text)
     THEN parsed ELSE ParseFail

(***************************************************************************)
(* JsonUploader.tsx: sanitizeJsonText                                      *)
(***************************************************************************)
\* the class [U+200B U+200C U+200D U+200E U+200F] removed everywhere
ZeroWidthChars == {"ZWSP", "ZWNJ", "ZWJ", "LRM", "RLM"}

\* the class [\s U+200B-U+200F U+FEFF U+00A0] of the two edge patterns
EdgeChars == RegexWhitespace \cup ZeroWidthChars

RECURSIVE StripTrailing(_, _)
StripTrailing(text, class) ==
  IF text # <<>> /\ text[Len(text)] \in class
  THEN StripTrailing(SubSeq(text, 1, Len(text) - 1), class)
  ELSE text

StripLeading(text, class) ==
  SubSeq(text, SkipClass(text, 1, class), Len(text))

sanitizeJsonText(text) ==
  LET noBom == IF text # <<>> /\ Head(text) = "BOM" THEN Tail(text) ELSE text
      edges == StripTrailing(StripLeading(noBom, EdgeChars), EdgeChars)
  IN  RemoveAll(edges, ZeroWidthChars)

(***************************************************************************)
(* JsonUploader.tsx: looksLikeJsonAfterComma and repairJsonQuotes          *)
(* Positions are 1-based: position p here is index p - 1 in the source.    *)
(***************************************************************************)
\* the inner while loop: the position of the next unescaped quote at or
\* after p, or a position past the end
RECURSIVE ScanToQuote(_, _)
ScanToQuote(text, p) ==
  IF p > Len(text) THEN p
  ELSE IF text[p] = Backslash THEN ScanToQuote(text, p + 2)
  ELSE IF text[p] = Quote THEN p
  ELSE ScanToQuote(text, p + 1)

\* faulty variant: the array rule is applied whatever the container is
looksLikeJsonAfterComma_arrayRule(text, pos, inArray) ==
  LET p  == SkipClass(text, pos, RegexWhitespace)
      ch == CharAt(text, p)
      j  == ScanToQuote(text, p + 1)
      k  == SkipClass(text, j + 1, RegexWhitespace)
  IN  IF p > Len(text) THEN FALSE
      ELSE IF ch \in {"{", "["} THEN TRUE
      ELSE IF ch \in Digits \cup {"-"} THEN TRUE
      ELSE IF \E word \in Literals : StartsWith(text, p, word) THEN TRUE
      ELSE IF ch = Quote /\ j <= Len(text)
           THEN k > Len(text) \/ text[k] \in {",", "]", "}", ":"}
           ELSE FALSE

looksLikeJsonAfterComma(text, pos, inArray) ==
  LET p  == SkipClass(text, pos, RegexWhitespace)
      ch == CharAt(text, p)
      j  == ScanToQuote(text, p + 1)
      k  == SkipClass(text, j + 1, RegexWhitespace)
  IN  IF p > Len(text) THEN FALSE
      ELSE IF inArray
      THEN IF ch \in {"{", "["} THEN TRUE
           ELSE IF ch \in Digits \cup {"-"} THEN TRUE
           ELSE IF \E word \in Literals : StartsWith(text, p, word) THEN TRUE
           ELSE IF ch = Quote /\ j <= Len(text)
                THEN k > Len(text) \/ text[k] \in {",", "]", "}", ":"}
                ELSE FALSE
      ELSE IF ch = Quote /\ j <= Len(text)
           THEN k <= Len(text) /\ text[k] = ":"
           ELSE FALSE

\* the locals of repairJsonQuotes before the loop
RepairStart == [i |-> 1, inString |-> FALSE, contextStack |-> <<>>, result |-> <<>>]

\* the decision taken at a quote met inside a string: TRUE ends the string
isStructural(text, st) ==
  LET j        == SkipClass(text, st.i + 1, RegexWhitespace)
      nextChar == CharAt(text, j)
      currentContext ==
        IF st.contextStack # <<>> THEN st.contextStack[Len(st.contextStack)]
        ELSE "o"
  IN  IF nextChar \in {"", "}", "]", ":"} THEN TRUE
      ELSE IF nextChar = ","
      THEN looksLikeJsonAfterComma(text, j + 1, currentContext = "a")
      ELSE FALSE

\* one iteration of the while loop of repairJsonQuotes
repairStep(text, st) ==
  LET ch  == text[st.i]
      pop == IF st.contextStack = <<>> THEN <<>>
             ELSE SubSeq(st.contextStack, 1, Len(st.contextStack) - 1)
  IN  IF st.inString
      THEN IF ch = Backslash
           THEN [st EXCEPT !.result = IF st.i + 1 <= Len(text)
                                      THEN @ \o <<ch, text[st.i + 1]>>
                                      ELSE @ \o <<ch>>,
                           !.i = IF st.i + 1 <= Len(text) THEN @ + 2 ELSE @ + 1]
           ELSE IF ch = Quote
           THEN IF isStructural(text, st)
                THEN [st EXCEPT !.result = @ \o <<ch>>, !.inString = FALSE,
                                !.i = @ + 1]
                ELSE [st EXCEPT !.result = @ \o <<Backslash, Quote>>, !.i = @ + 1]
           ELSE [st EXCEPT !.result = @ \o <<ch>>, !.i = @ + 1]
      ELSE [st EXCEPT !.result = @ \o <<ch>>,
                      !.inString = (ch = Quote),
                      !.contextStack =
                        IF ch = "[" THEN @ \o <<"a">>
                        ELSE IF ch = "{" THEN @ \o <<"o">>
                        ELSE IF ch \in {"]", "}"} THEN pop
                        ELSE @,
                      !.i = @ + 1]

RECURSIVE repairLoop(_, _)
repairLoop(text, st) ==
  IF st.i > Len(text) THEN st ELSE repairLoop(text, repairStep(text, st))

repairJsonQuotes(text) == repairLoop(text, RepairStart).result

(***************************************************************************)
(* JsonUploader.tsx: the control-character pass of parseAndValidateJson    *)
(***************************************************************************)
\* characters the regex dot does not match
LineTerminators == {"\n", "\r"}

\* /"(?:[^"\\]|\\.)*"/ tried at the quote at position p: the position of the
\* closing quote, or 0 when the pattern does not match there
RECURSIVE MatchStringLiteral(_, _)
MatchStringLiteral(text, p) ==
  IF p > Len(text) THEN 0
  ELSE IF text[p] = Quote THEN p
  ELSE IF text[p] = Backslash
  THEN IF p + 1 <= Len(text) /\ text[p + 1] \notin LineTerminators
       THEN MatchStringLiteral(text, p + 2)
       ELSE 0
  ELSE MatchStringLiteral(text, p + 1)

RECURSIVE escapeControlChars(_)
escapeControlChars(match) ==
  IF match = <<>> THEN <<>>
  ELSE LET ch == Head(match)
           out == IF ch = "\t" THEN <<Backslash, "t">>
                  ELSE IF ch = "\n" THEN <<Backslash, "n">>
                  ELSE IF ch = "\r" THEN <<Backslash, "r">>
                  ELSE IF ch = "NUL" THEN <<Backslash, "u", "0", "0", "0", "0">>
                  ELSE <<ch>>
       IN  out \o escapeControlChars(Tail(match))

\* repaired.replace(/"(?:[^"\\]|\\.)*"/g, escape), scanning from position p
RECURSIVE escapeInStrings(_, _)
escapeInStrings(text, p) ==
  IF p > Len(text) THEN <<>>
  ELSE LET close == IF text[p] = Quote THEN MatchStringLiteral(text, p + 1) ELSE 0
       IN  IF close > 0
           THEN escapeControlChars(SubSeq(text, p, close))
                  \o escapeInStrings(text, close + 1)
           ELSE <<text[p]>> \o escapeInStrings(text, p + 1)

(***************************************************************************)
(* JsonUploader.tsx: parseAndValidateJson, after the parse                 *)
(***************************************************************************)
ParsedError(kind) == [status |-> "error", records |-> <<>>, error |-> kind]

ParsedPending(items) ==
  [status |-> "pending",
   records |-> [n \in 1..Len(items) |-> [data |-> items[n], status |-> "pending"]],
   error |-> "none"]

\* faulty variant: typeof item === 'object' alone, which an array passes
isRecordItem_arrayToo(item) == item.t \in {"object", "array"}

isRecordItem(item) == item.t = "object"

validateShape(parsed) ==
  IF parsed.t = "array"
  THEN IF parsed.items = <<>> THEN ParsedError("emptyArray")
       ELSE IF \E n \in 1..Len(parsed.items) : ~isRecordItem(parsed.items[n])
       THEN ParsedError("nonObjectItem")
       ELSE ParsedPending(parsed.items)
  ELSE IF parsed.t # "object" THEN ParsedError("notObjectOrArray")
  ELSE IF parsed.entries = <<>> THEN ParsedError("emptyObject")
  ELSE ParsedPending(<<parsed>>)

\* the three JSON.parse attempts, in order
parseWithRetries(sanitized) ==
  LET direct   == JsonParse(sanitized)
      repaired == repairJsonQuotes(sanitized)
      second   == JsonParse(repaired)
      third    == JsonParse(escapeInStrings(repaired, 1))
  IN  IF direct.ok THEN direct
      ELSE IF second.ok THEN second
      ELSE third

parseAndValidateJson(text) ==
  LET sanitized == sanitizeJsonText(text)
      parsed    == parseWithRetries(sanitized)
  IN  IF sanitized = <<>> THEN ParsedError("emptyInput")
      ELSE IF ~parsed.ok THEN ParsedError("parseFailed")
      ELSE validateShape(parsed.value)

VARIABLES
  name,          \* normalizer run: the input string
  normalized,    \* normalizer run: normalizeFieldName(name)
  renormalized,  \* normalizer run: normalizeFieldName(normalized)
  npc,           \* normalizer run: "start", "once", "twice"; "off" in other runs
  mJsonFields,     \* matcher run: the incoming field names (Array.from of a Set)
  mExistingFields, \* matcher run: the remote fields {field_name, normalized_name}
  mResult,         \* matcher run: the FieldValidationResult
  mMapping,        \* matcher run: createFieldNameMapping(existing fields)
  mpc,             \* matcher run: "start", "validated", "mapped"; "off" otherwise
  records,          \* batchCreateRecords: the records argument
  fieldMapping,     \* batchCreateRecords: normalized name -> literal field name
  urlFieldNames,    \* batchCreateRecords: names of the URL-typed fields
  numberFieldNames, \* batchCreateRecords: names of the number-typed fields
  i,                \* batchCreateRecords: the loop variable (0-based start of the chunk)
  result,           \* batchCreateRecords: the BatchCreateResult being built
  calls,            \* the bulk-create calls issued so far, with their outcome
  inFlight,         \* number of bulk-create calls issued and not yet resolved
  bpc,              \* batchCreateRecords: "loop", "await", "returned"; "off" if not called
  remoteFields,     \* the remote table's fields [field_name, type], in creation order
  createCalls,      \* the createField calls issued so far [field_name, type, ok]
  rpc,              \* POST /api/import: "off", "token", "fields", "create", "batch", "responded"
  fieldTypes,       \* POST /api/import: body.fieldTypes (field name -> type name)
  existingNormalizedNames, \* POST /api/import: normalized names the table has
  allFieldNames,    \* POST /api/import: the keys of all records
  normalizedToAliases, \* POST /api/import: normalized name -> spellings seen
  missingFields,    \* POST /api/import: the names to create
  missingIndex,     \* POST /api/import: position of the for-of loop over missingFields
  response,         \* POST /api/import: the HTTP response
  step,             \* page.tsx: the wizard step
  parsedRecords,    \* page.tsx: the data objects of the valid parsed files, in order
  existingFields,   \* page.tsx: the ExistingField list read from /api/fields
  validationResult, \* page.tsx: the FieldValidationResult
  similarDecisions, \* FieldValidation: jsonField -> "existing" | "new"
  approvedNew,      \* FieldValidation: the approved new field names
  fieldMappingDecision, \* page.tsx: the decision handed over by handleApprove
  allRecords,       \* handleImport: the transformed records
  imp,              \* handleImport: its locals i, successCount, failedCount, ...
  ppc,              \* handleImport: "idle", "loop", "await", "done"
  importProgress,   \* page.tsx: the ImportProgress state
  summary,          \* page.tsx: the ImportSummary, NoSummary while null
  pageError,        \* page.tsx: the error state
  content,          \* parseAndValidateJson: the content argument, a text
  sanitized,        \* parseAndValidateJson: sanitizeJsonText(content)
  repair,           \* repairJsonQuotes: its locals i, inString, contextStack, result
  parsedFile,       \* parseAndValidateJson: the ParsedFile returned
  jstage,           \* parseAndValidateJson: which JSON.parse call succeeded, 0 if none
  jpc               \* parseAndValidateJson: "start", "parse", "repair", "escape",
                    \* "done"; "off" in other runs

normVars == <<name, normalized, renormalized, npc>>
matchVars == <<mJsonFields, mExistingFields, mResult, mMapping, mpc>>
batchArgs == <<records, fieldMapping, urlFieldNames, numberFieldNames>>
batchVars == <<batchArgs, i, result, calls, inFlight, bpc>>

remoteVars == <<remoteFields, createCalls>>
routeLocals == <<fieldTypes, existingNormalizedNames, allFieldNames, normalizedToAliases,
                 missingFields, missingIndex>>
routeVars == <<rpc, routeLocals, response>>
validationVars == <<existingFields, validationResult, similarDecisions, approvedNew,
                    fieldMappingDecision>>
pageVars == <<step, parsedRecords, validationVars, allRecords, imp, ppc, importProgress,
              summary, pageError>>

parseVars == <<content, sanitized, repair, parsedFile, jstage, jpc>>

vars == <<normVars, matchVars, batchVars, remoteVars, routeVars, pageVars, parseVars>>

\* what a step of batchCreateRecords leaves alone
batchFrame == <<normVars, matchVars, remoteVars, routeVars, pageVars, parseVars>>

NoResponse ==
  [status |-> 0, success |-> FALSE, error |-> "", hasData |-> FALSE,
   totalRecords |-> 0, successCount |-> 0, failedCount |-> 0, errors |-> <<>>,
   createdFieldsCount |-> 0]

NoDecision == [isSet |-> FALSE, similarMappings |-> EmptyMap, approvedNewFields |-> {}]

\* the locals of handleImport; run counts the calls of handleImport so far
NoImport ==
  [i |-> 0, successCount |-> 0, failedCount |-> 0, createdFieldsCount |-> 0,
   errors |-> <<>>, fieldTypes |-> EmptyMap, run |-> 0]

IdleProgress ==
  [current |-> 0, total |-> 0, successCount |-> 0, failedCount |-> 0,
   status |-> "idle", errors |-> <<>>]

NoSummary ==
  [isSet |-> FALSE, totalRecords |-> 0, successCount |-> 0, failedCount |-> 0,
   createdFieldsCount |-> 0]

RemoteOff == remoteFields = <<>> /\ createCalls = <<>>

RouteOff ==
  /\ rpc = "off" /\ fieldTypes = EmptyMap /\ existingNormalizedNames = {}
  /\ allFieldNames = {} /\ normalizedToAliases = EmptyMap
  /\ missingFields = <<>> /\ missingIndex = 0 /\ response = NoResponse

PageOff ==
  /\ step = "off" /\ parsedRecords = <<>> /\ existingFields = <<>>
  /\ validationResult = EmptyValidationResult
  /\ similarDecisions = EmptyMap /\ approvedNew = {}
  /\ fieldMappingDecision = NoDecision
  /\ allRecords = <<>> /\ imp = NoImport /\ ppc = "off" /\ pageError = ""
  /\ importProgress = IdleProgress /\ summary = NoSummary

NormOff == name = <<>> /\ normalized = <<>> /\ renormalized = <<>> /\ npc = "off"

NoParsedFile == [status |-> "none", records |-> <<>>, error |-> "none"]

ParseOff ==
  /\ content = <<>> /\ sanitized = <<>> /\ repair = RepairStart
  /\ parsedFile = NoParsedFile /\ jstage = 0 /\ jpc = "off"

MatchOff ==
  /\ mJsonFields = <<>> /\ mExistingFields = <<>>
  /\ mResult = EmptyValidationResult /\ mMapping = EmptyMap /\ mpc = "off"

BatchOff ==
  /\ records = <<>> /\ fieldMapping = EmptyMap
  /\ urlFieldNames = {} /\ numberFieldNames = {}
  /\ i = 0 /\ result = EmptyBatchCreateResult
  /\ calls = <<>> /\ inFlight = 0 /\ bpc = "off"

\* ------------------------------------------------- normalizer run (SpecNorm)
InitNorm ==
  /\ name \in StringsUpTo(MaxStrLen)
  /\ normalized = <<>>
  /\ renormalized = <<>>
  /\ npc = "start"
  /\ MatchOff
  /\ BatchOff
  /\ RemoteOff /\ RouteOff /\ PageOff /\ ParseOff

Normalize ==
  /\ npc = "start"
  /\ normalized' = normalizeFieldName(name)
  /\ npc' = "once"
  /\ UNCHANGED <<name, renormalized, matchVars, batchVars, remoteVars, routeVars, pageVars,
               parseVars>>

NormalizeAgain ==
  /\ npc = "once"
  /\ renormalized' = normalizeFieldName(normalized)
  /\ npc' = "twice"
  /\ UNCHANGED <<name, normalized, matchVars, batchVars, remoteVars, routeVars, pageVars,
               parseVars>>

NextNorm == Normalize \/ NormalizeAgain

SpecNorm == InitNorm /\ [][NextNorm]_vars

\* C8: normalizeFieldName is idempotent: normalizing a normalized name
\* returns it unchanged, for every input string.
C8_Idempotent == npc = "twice" => renormalized = normalized

\* --------------------------------------------------- matcher run (SpecMatch)
\* remote field names: non-empty and unique within a table
ExistingNamePool ==
  {<<"a">>, <<"Fa">>, <<"a", "ZW">>, <<"b">>, <<"ZW">>}

\* keys of the uploaded JSON objects: any string, the empty one included
IncomingNamePool == ExistingNamePool \cup {<<>>, <<"SP", "b">>}

RangeOf(seq) == {seq[x] : x \in DOMAIN seq}

NoDuplicates(seq) == \A x, y \in DOMAIN seq : seq[x] = seq[y] => x = y

RECURSIVE DistinctSeqs(_, _)
DistinctSeqs(pool, n) ==
  IF n = 0 THEN {<<>>}
  ELSE LET shorter == DistinctSeqs(pool, n - 1)
       IN shorter \cup {Append(s, e) : s \in {t \in shorter : Len(t) = n - 1}, e \in pool}

DistinctSeqsUpTo(pool, n) == {s \in DistinctSeqs(pool, n) : NoDuplicates(s)}

\* api/fields/route.ts: the ExistingField sent to the page
ExistingField(fieldName) ==
  [field_name |-> fieldName, normalized_name |-> normalizeFieldName(fieldName)]

InitMatch ==
  /\ mJsonFields \in DistinctSeqsUpTo(IncomingNamePool, MaxIncoming)
  /\ \E names \in DistinctSeqsUpTo(ExistingNamePool, MaxExisting) :
       mExistingFields = [x \in DOMAIN names |-> ExistingField(names[x])]
  /\ mResult = EmptyValidationResult
  /\ mMapping = EmptyMap
  /\ mpc = "start"
  /\ NormOff /\ ParseOff
  /\ BatchOff
  /\ RemoteOff /\ RouteOff /\ PageOff

Validate ==
  /\ mpc = "start"
  /\ mResult' = validateFieldsAgainstExisting(mJsonFields, mExistingFields)
  /\ mpc' = "validated"
  /\ UNCHANGED <<mJsonFields, mExistingFields, mMapping, normVars, parseVars, batchVars, remoteVars,
               routeVars, pageVars>>

CreateMapping ==
  /\ mpc = "validated"
  /\ mMapping' = createFieldNameMapping(mExistingFields)
  /\ mpc' = "mapped"
  /\ UNCHANGED <<mJsonFields, mExistingFields, mResult, normVars, parseVars, batchVars, remoteVars,
               routeVars, pageVars>>

NextMatch == Validate \/ CreateMapping

SpecMatch == InitMatch /\ [][NextMatch]_vars

ExactNames == {mResult.exactMatches[x].jsonField : x \in DOMAIN mResult.exactMatches}
SimilarNames == {mResult.similarMatches[x].jsonField : x \in DOMAIN mResult.similarMatches}
NewNames == RangeOf(mResult.newFields)

Occurrences(seq, e) == Cardinality({x \in DOMAIN seq : seq[x] = e})

BucketCount(f) ==
  Cardinality({x \in DOMAIN mResult.exactMatches : mResult.exactMatches[x].jsonField = f})
  + Cardinality({x \in DOMAIN mResult.similarMatches : mResult.similarMatches[x].jsonField = f})
  + Occurrences(mResult.newFields, f)

\* C5: every incoming name is placed in exactly one of exactMatches,
\* similarMatches, newFields, and no bucket holds a name that was not incoming.
C5_Partition ==
  mpc # "start" /\ mpc # "off" =>
    /\ \A f \in RangeOf(mJsonFields) : BucketCount(f) = 1
    /\ ExactNames \cup SimilarNames \cup NewNames \subseteq RangeOf(mJsonFields)

\* a run in which each of the three buckets received a name
C5_Witness ==
  /\ mpc = "validated"
  /\ Len(mJsonFields) = 3
  /\ ExactNames # {} /\ SimilarNames # {} /\ NewNames # {}

ExistingNames == {mExistingFields[x].field_name : x \in DOMAIN mExistingFields}

SameNormalized(f) ==
  {x \in DOMAIN mExistingFields :
     normalizeFieldName(mExistingFields[x].field_name) = normalizeFieldName(f)}

\* C6: a name is exact iff an existing field has its normalized form and its
\* literal name; similar iff an existing field has its normalized form and none
\* of those is literally equal; new iff no existing field has its normalized form.
C6_Classification ==
  mpc # "start" /\ mpc # "off" =>
    \A f \in RangeOf(mJsonFields) :
      /\ f \in ExactNames <=>
           \E x \in SameNormalized(f) : mExistingFields[x].field_name = f
      /\ f \in SimilarNames <=>
           /\ SameNormalized(f) # {}
           /\ \A x \in SameNormalized(f) : mExistingFields[x].field_name # f
      /\ f \in NewNames <=> SameNormalized(f) = {}


SetMax(S) == CHOOSE m \in S : \A y \in S : y <= m
SetMin(S) == CHOOSE m \in S : \A y \in S : m <= y

\* the existing field the matcher paired an incoming name with
MatchedExisting(f) ==
  {mResult.exactMatches[x].existingField :
     x \in {y \in DOMAIN mResult.exactMatches : mResult.exactMatches[y].jsonField = f}}
  \cup
  {mResult.similarMatches[x].existingField :
     x \in {y \in DOMAIN mResult.similarMatches : mResult.similarMatches[y].jsonField = f}}

\* C7 (as claimed): among existing fields that share a normalized key, the
\* matcher and the normalized-name -> literal-name mapping select the first one
\* in iteration order of the existing-field list.
C7_FirstSeenWins ==
  mpc = "mapped" =>
    /\ \A f \in RangeOf(mJsonFields) :
         SameNormalized(f) # {} =>
           MatchedExisting(f) = {mExistingFields[SetMin(SameNormalized(f))].field_name}
    /\ \A x \in DOMAIN mExistingFields :
         mMapping[normalizeFieldName(mExistingFields[x].field_name)] =
           mExistingFields[SetMin(SameNormalized(mExistingFields[x].field_name))].field_name

\* C7 (amended): among existing fields that share a normalized key, the
\* matcher and the normalized-name -> literal-name mapping select the last one
\* in iteration order of the existing-field list.
C7_LastSeenWins ==
  mpc = "mapped" =>
    /\ \A f \in RangeOf(mJsonFields) :
         SameNormalized(f) # {} =>
           MatchedExisting(f) = {mExistingFields[SetMax(SameNormalized(f))].field_name}
    /\ \A x \in DOMAIN mExistingFields :
         mMapping[normalizeFieldName(mExistingFields[x].field_name)] =
           mExistingFields[SetMax(SameNormalized(mExistingFields[x].field_name))].field_name

\* three existing fields share one normalized key and an incoming name has it
C7_Witness ==
  /\ mpc = "mapped"
  /\ \E f \in RangeOf(mJsonFields) :
       /\ Cardinality(SameNormalized(f)) = 3
       /\ MatchedExisting(f) = {mExistingFields[3].field_name}

\* ------------------------------------------- batchCreateRecords (SpecBatch)
Pending == [kind |-> "pending", msg |-> "", n |-> 0]

\* lark.ts batchCreateRecords: the loop finds another chunk, maps it through
\* processFieldValues and issues its bulk-create call
BatchIssue ==
  /\ bpc = "loop"
  /\ i < Len(records)
  /\ LET batch == BatchSlice(records, i)
         batchRecords == [j \in DOMAIN batch |->
            processFieldValues(batch[j], fieldMapping, urlFieldNames, numberFieldNames)]
     IN calls' = Append(calls, [start |-> i, records |-> batchRecords, response |-> Pending])
  /\ inFlight' = inFlight + 1
  /\ bpc' = "await"
  /\ UNCHANGED <<batchArgs, i, result, batchFrame>>

\* lark.ts batchCreateRecords: the awaited call resolves (or throws), the chunk
\* is accounted for and the loop variable advances
\* faulty variant: a thrown transport error leaves batchCreateRecords and
\* reaches the catch block of the route
BatchResolve_rethrow ==
  /\ bpc = "await"
  /\ LET len == Len(BatchSlice(records, i))
     IN \E outcome \in BulkResponses(len) :
          /\ calls' = [calls EXCEPT ![Len(calls)].response = outcome]
          /\ IF outcome.kind = "throw"
             THEN /\ result' = result /\ i' = i /\ bpc' = "off"
                  /\ rpc' = "responded"
                  /\ response' = [response EXCEPT !.status = 500, !.error = outcome.msg]
             ELSE /\ result' = ApplyBulkResponse(result, i, len, outcome)
                  /\ i' = i + BATCH_SIZE /\ bpc' = "loop"
                  /\ UNCHANGED <<rpc, response>>
  /\ inFlight' = inFlight - 1
  /\ UNCHANGED <<batchArgs, routeLocals, normVars, matchVars, remoteVars, pageVars,
                 parseVars>>

BatchResolve ==
  /\ bpc = "await"
  /\ LET len == Len(BatchSlice(records, i))
     IN \E outcome \in BulkResponses(len) :
          /\ result' = ApplyBulkResponse(result, i, len, outcome)
          /\ calls' = [calls EXCEPT ![Len(calls)].response = outcome]
  /\ inFlight' = inFlight - 1
  /\ i' = i + BATCH_SIZE
  /\ bpc' = "loop"
  /\ UNCHANGED <<batchArgs, batchFrame>>

\* lark.ts batchCreateRecords: the loop condition fails, result is returned
BatchReturn ==
  /\ bpc = "loop"
  /\ ~(i < Len(records))
  /\ bpc' = "returned"
  /\ UNCHANGED <<batchArgs, i, result, calls, inFlight, batchFrame>>

\* record counts around the chunk boundaries
RecordCounts ==
  {0, 1, 2} \cup {c * BATCH_SIZE + d : c \in 1..(MaxChunks - 1), d \in {0, 1}}

\* the j-th record of a direct call: one numeric field holding j
NumberedRecord(j) == <<[key |-> <<"a">>, value |-> JsNumber(ToString(j))]>>

InitBatch ==
  /\ \E n \in RecordCounts : records = [j \in 1..n |-> NumberedRecord(j)]
  /\ fieldMapping = EmptyMap
  /\ urlFieldNames = {}
  /\ numberFieldNames = {}
  /\ i = 0
  /\ result = EmptyBatchCreateResult
  /\ calls = <<>>
  /\ inFlight = 0
  /\ bpc = "loop"
  /\ NormOff /\ ParseOff
  /\ MatchOff
  /\ RemoteOff /\ RouteOff /\ PageOff

NextBatch == BatchIssue \/ BatchResolve \/ BatchReturn

SpecBatch == InitBatch /\ [][NextBatch]_vars

\* C1: the returned result satisfies successCount + failedCount == number of
\* records submitted, whatever the outcome of each chunk's bulk-create call.
C1_Conservation ==
  bpc = "returned" => result.successCount + result.failedCount = Len(records)

ErrorsAt(idx) == {e \in DOMAIN result.errors : result.errors[e].index = idx}

IdsOfChunk(start) == {r \in DOMAIN result.recordIds : result.recordIds[r][1] = start}

ChunkOf(idx) == (idx \div BATCH_SIZE) + 1

CallFailed(c) == calls[c].response.kind \in {"throw", "error", "nullentry"}

CallSucceeded(c) == calls[c].response.kind \in {"ok", "norecords"}

ErrorsAscending ==
  \A e \in DOMAIN result.errors :
    e > 1 => result.errors[e - 1].index < result.errors[e].index

\* C2: after batchCreateRecords returns every submitted index is accounted for
\* exactly once: it is once in errors with its position in the original list,
\* or its chunk's call succeeded and the chunk contributed one created id per
\* record; errors are in ascending index order.
C2_Accounting ==
  bpc = "returned" =>
    /\ \A idx \in 0..(Len(records) - 1) :
         \/ /\ Cardinality(ErrorsAt(idx)) = 1
            /\ IdsOfChunk(calls[ChunkOf(idx)].start) = {}
         \/ /\ ErrorsAt(idx) = {}
            /\ CallSucceeded(ChunkOf(idx))
            /\ Cardinality(IdsOfChunk(calls[ChunkOf(idx)].start))
                 = Len(calls[ChunkOf(idx)].records)
    /\ ErrorsAscending

CeilDiv(n, d) == (n + d - 1) \div d

ChunkLen(c) == Len(calls[c].records)

ChunkIndexes(c) == calls[c].start .. (calls[c].start + ChunkLen(c) - 1)

\* C3: a call-level failure of a chunk (non-zero code or thrown error) marks
\* exactly the records of that chunk as failed, all with one shared message, and
\* does not abort the run: every chunk's call is issued exactly once and
\* batchCreateRecords returns after exactly ceil(n/500) calls.
C3_ChunkIsolation ==
  /\ \A c \in DOMAIN calls :
       LET marked == {e \in DOMAIN result.errors :
                        result.errors[e].index \in ChunkIndexes(c)}
       IN /\ calls[c].start = (c - 1) * BATCH_SIZE
          /\ CallFailed(c) =>
               /\ Cardinality(marked) = ChunkLen(c)
               /\ {result.errors[e].index : e \in marked} = ChunkIndexes(c)
               /\ \A e \in marked : result.errors[e].error = calls[c].response.msg
          /\ ~CallFailed(c) => marked = {}
  /\ \A e \in DOMAIN result.errors :
       /\ result.errors[e].index >= 0
       /\ ChunkOf(result.errors[e].index) \in DOMAIN calls
       /\ result.errors[e].index \in ChunkIndexes(ChunkOf(result.errors[e].index))
  /\ result.failedCount = Len(result.errors)
  /\ bpc = "returned" =>
       /\ Len(calls) = CeilDiv(Len(records), BATCH_SIZE)
       /\ \A c \in DOMAIN calls : calls[c].response # Pending

\* three chunks were sent: the first got an error code, the second threw, the
\* third, shorter one succeeded
C3_Witness ==
  /\ bpc = "returned"
  /\ Len(records) = 2 * BATCH_SIZE + 1
  /\ Len(calls) = 3
  /\ calls[1].response.kind = "error"
  /\ calls[2].response.kind = "throw"
  /\ calls[3].response.kind = "ok"
  /\ result.failedCount = 2 * BATCH_SIZE

\* C4: every bulk-create call carries at most 500 records, the chunks are
\* contiguous slices of the input in input order, and a chunk's call is issued
\* only after the previous one resolved: at most one call is in flight.
C4_SequentialChunks ==
  /\ \A c \in DOMAIN calls :
       /\ ChunkLen(c) <= BATCH_SIZE
       /\ ChunkLen(c) >= 1
       /\ calls[c].start = (IF c = 1 THEN 0 ELSE calls[c - 1].start + ChunkLen(c - 1))
       /\ \A k \in 1..ChunkLen(c) :
            calls[c].records[k] =
              processFieldValues(records[calls[c].start + k], fieldMapping,
                                 urlFieldNames, numberFieldNames)
       /\ c < Len(calls) => calls[c].response # Pending
  /\ inFlight = Cardinality({c \in DOMAIN calls : calls[c].response = Pending})
  /\ inFlight <= 1
  /\ bpc = "returned" =>
       (IF calls = <<>> THEN 0 ELSE calls[Len(calls)].start + ChunkLen(Len(calls)))
         = Len(records)

\* the second of three calls is in flight, the first one has resolved
C4_Witness ==
  /\ bpc = "await"
  /\ Len(records) = 2 * BATCH_SIZE + 1
  /\ Len(calls) = 2
  /\ ChunkLen(2) = BATCH_SIZE
  /\ calls[1].response.kind = "ok"
  /\ inFlight = 1

\* ------------------------------------------------ the import wizard (Spec)
Field(fieldName, type) == [field_name |-> fieldName, type |-> type]

\* the remote tables an import starts from
Schemas ==
  {<<>>,
   <<Field(<<"a">>, 1), Field(RawJsonKey, 1)>>,
   <<Field(<<"Fa">>, 2)>>,
   <<Field(<<"a">>, 1), Field(<<"Fa">>, 15)>>,
   <<Field(<<"b">>, 15), Field(RawJsonKey, 1)>>}

Entry(k, v) == [key |-> k, value |-> v]

\* the JSON objects an upload is made of
RecordPool ==
  {<<Entry(<<"a">>, JsNumber("20"))>>,
   <<Entry(<<"Fa">>, JsString("21"))>>,
   <<Entry(<<"b">>, JsString("https://a.b")), Entry(<<"a">>, JsNull)>>,
   <<Entry(<<"b">>, JsString("x"))>>}

RECURSIVE SeqsOfLen(_, _)
SeqsOfLen(pool, n) ==
  IF n = 0 THEN {<<>>}
  ELSE {Append(q, e) : q \in SeqsOfLen(pool, n - 1), e \in pool}

Uploads == UNION {SeqsOfLen(RecordPool, n) : n \in 1..MaxUploadRecords}

\* uploads of more than one chunk: BATCH_SIZE equal records, then one record
\* with another key
BigUploads ==
  {[k \in 1..(BATCH_SIZE + 1) |->
      IF k <= BATCH_SIZE THEN <<Entry(<<"a">>, JsNumber("20"))>>
      ELSE <<Entry(<<"b">>, JsString("x"))>>]}

\* two records with a key the table has and a key it lacks, the second
\* record holding a numeric string where the first holds a number
ExampleUpload ==
  <<<<Entry(<<"a">>, JsString("x")), Entry(<<"b">>, JsNumber("20"))>>,
    <<Entry(<<"a">>, JsString("x")), Entry(<<"b">>, JsString("21"))>>>>

\* the type selections a caller passes to handleImport
FieldTypeChoices ==
  {EmptyMap, [k \in {<<"b">>} |-> "number"], [k \in {<<"Fa">>} |-> "url"]}

Init ==
  /\ remoteFields \in Schemas
  /\ createCalls = <<>>
  /\ parsedRecords \in Uploads \cup BigUploads \cup {ExampleUpload}
  /\ step = "upload"
  /\ existingFields = <<>>
  /\ validationResult = EmptyValidationResult
  /\ similarDecisions = EmptyMap
  /\ approvedNew = {}
  /\ fieldMappingDecision = NoDecision
  /\ allRecords = <<>>
  /\ imp = NoImport
  /\ ppc = "idle"
  /\ importProgress = IdleProgress
  /\ summary = NoSummary
  /\ pageError = ""
  /\ RouteOff
  /\ BatchOff
  /\ NormOff /\ ParseOff
  /\ MatchOff

RECURSIVE SeqAddAll(_, _)
SeqAddAll(seq, es) ==
  IF es = <<>> THEN seq ELSE SeqAddAll(SeqAdd(seq, Head(es)), Tail(es))

\* Array.from(allJsonFields): the keys of all records in first-seen order
RECURSIVE collectJsonFields(_, _)
collectJsonFields(seen, recs) ==
  IF recs = <<>> THEN seen
  ELSE IF Len(recs) = 1 THEN SeqAddAll(seen, ObjKeys(Head(recs)))
  ELSE \* the loop over records, evaluated half by half; the test makes the
       \* first half's result a value before it is passed on
       LET half == Len(recs) \div 2
           left == collectJsonFields(seen, SubSeq(recs, 1, half))
       IN IF left = left
          THEN collectJsonFields(left, SubSeq(recs, half + 1, Len(recs)))
          ELSE left

\* api/fields/route.ts: the fields of the table with their normalized names
fieldsResponse(fields) ==
  [k \in DOMAIN fields |->
     [field_name |-> fields[k].field_name,
      normalized_name |-> normalizeFieldName(fields[k].field_name),
      type |-> fields[k].type]]

\* page.tsx handleProceedToValidation; the FieldValidation component mounts with
\* every similar match set to "existing" and every new field approved
ProceedToValidation ==
  /\ step = "upload"
  /\ ppc = "idle"
  /\ parsedRecords # <<>>
  /\ \E ok \in BOOLEAN :
       IF ok
       THEN LET fields == fieldsResponse(remoteFields)
                validated == validateFieldsAgainstExisting(
                               collectJsonFields(<<>>, parsedRecords),
                               [k \in DOMAIN fields |->
                                  [field_name |-> fields[k].field_name,
                                   normalized_name |-> fields[k].normalized_name]])
            IN /\ existingFields' = fields
               /\ validationResult' = validated
               /\ similarDecisions' =
                    [f \in {validated.similarMatches[k].jsonField :
                              k \in DOMAIN validated.similarMatches} |-> "existing"]
               /\ approvedNew' = RangeOf(validated.newFields)
               /\ step' = "validation"
               /\ pageError' = ""
       ELSE /\ pageError' = "fields"
            /\ UNCHANGED <<existingFields, validationResult, similarDecisions,
                           approvedNew, step>>
  /\ UNCHANGED <<parsedRecords, fieldMappingDecision, allRecords, imp, ppc,
                 importProgress, summary>>
  /\ UNCHANGED <<normVars, parseVars, matchVars, batchVars, remoteVars, routeVars>>

\* FieldValidation handleSimilarDecision
SimilarDecision ==
  /\ step = "validation"
  /\ \E f \in DOMAIN similarDecisions, d \in {"existing", "new"} :
       /\ similarDecisions[f] # d
       /\ similarDecisions' = MapSet(similarDecisions, f, d)
  /\ UNCHANGED <<step, parsedRecords, existingFields, validationResult, approvedNew,
                 fieldMappingDecision, allRecords, imp, ppc, importProgress, summary,
                 pageError>>
  /\ UNCHANGED <<normVars, parseVars, matchVars, batchVars, remoteVars, routeVars>>

\* FieldValidation toggleNewFieldApproval
ToggleNewFieldApproval ==
  /\ step = "validation"
  /\ \E f \in RangeOf(validationResult.newFields) :
       approvedNew' = IF f \in approvedNew THEN approvedNew \ {f} ELSE approvedNew \cup {f}
  /\ UNCHANGED <<step, parsedRecords, existingFields, validationResult, similarDecisions,
                 fieldMappingDecision, allRecords, imp, ppc, importProgress, summary,
                 pageError>>
  /\ UNCHANGED <<normVars, parseVars, matchVars, batchVars, remoteVars, routeVars>>

\* FieldValidation handleApprove, then page.tsx handleValidationApprove
Approve ==
  /\ step = "validation"
  /\ fieldMappingDecision' =
       [isSet |-> TRUE,
        similarMappings |->
          [f \in {validationResult.similarMatches[k].jsonField :
                    k \in DOMAIN validationResult.similarMatches} |->
             IF similarDecisions[f] = "existing"
             THEN validationResult.similarMatches[
                    CHOOSE k \in DOMAIN validationResult.similarMatches :
                      validationResult.similarMatches[k].jsonField = f].existingField
             ELSE Null],
        approvedNewFields |-> approvedNew]
  /\ step' = "preview"
  /\ UNCHANGED <<parsedRecords, existingFields, validationResult, similarDecisions,
                 approvedNew, allRecords, imp, ppc, importProgress, summary, pageError>>
  /\ UNCHANGED <<normVars, parseVars, matchVars, batchVars, remoteVars, routeVars>>

\* page.tsx handleImport up to its chunk loop: the records are transformed by
\* the decision, _raw_json is added, the progress and the counters are reset
HandleImport ==
  /\ step = "preview"
  /\ ppc = "idle"
  /\ imp.run < MaxImports
  /\ \E selected \in FieldTypeChoices :
       LET transformed == [k \in DOMAIN parsedRecords |->
                             withRawJson(parsedRecords[k], fieldMappingDecision)]
       IN /\ transformed # <<>>
          /\ allRecords' = transformed
          /\ imp' = [NoImport EXCEPT !.fieldTypes = selected, !.run = imp.run + 1]
          /\ importProgress' = [IdleProgress EXCEPT !.total = Len(transformed),
                                                    !.status = "importing"]
  /\ pageError' = ""
  /\ ppc' = "loop"
  /\ UNCHANGED <<step, parsedRecords, validationVars, summary>>
  /\ UNCHANGED <<normVars, parseVars, matchVars, batchVars, remoteVars, routeVars>>

\* page.tsx handleImport: the loop finds another chunk and posts it to
\* /api/import; route.ts POST accepts the body (records is a non-empty array)
PageSendChunk ==
  /\ ppc = "loop"
  /\ imp.i < Len(allRecords)
  /\ records' = BatchSlice(allRecords, imp.i)
  /\ fieldTypes' = imp.fieldTypes
  /\ rpc' = "token"
  /\ response' = NoResponse
  /\ ppc' = "await"
  /\ UNCHANGED <<fieldMapping, urlFieldNames, numberFieldNames, i, result, calls,
                 inFlight, bpc>>
  /\ UNCHANGED <<existingNormalizedNames, allFieldNames, normalizedToAliases,
                 missingFields, missingIndex>>
  /\ UNCHANGED <<step, parsedRecords, validationVars, allRecords, imp, importProgress,
                 summary, pageError>>
  /\ UNCHANGED <<normVars, parseVars, matchVars, remoteVars>>

\* route.ts POST, the catch block: {error, success: false} with status 500
FailedRun(message) ==
  [NoResponse EXCEPT !.status = 500, !.success = FALSE, !.error = message]

\* route.ts POST step 1: getTenantAccessToken resolves or throws
RouteToken ==
  /\ rpc = "token"
  /\ \E ok \in BOOLEAN :
       IF ok THEN rpc' = "fields" /\ UNCHANGED response
       ELSE rpc' = "responded" /\ response' = FailedRun("Failed to get token")
  /\ UNCHANGED <<routeLocals, batchVars, remoteVars, pageVars, normVars, parseVars, matchVars>>

\* route.ts POST steps 2 to 5 up to the creation loop: getTableFields resolves
\* or throws; the mapping, the typed-name sets and missingFields are computed
RouteGetFields ==
  /\ rpc = "fields"
  /\ \E ok \in BOOLEAN :
       IF ok
       THEN LET existing == remoteFields
                existingNames == {normalizeFieldName(existing[k].field_name) :
                                    k \in DOMAIN existing}
                collected == collectFieldNames(records)
            IN /\ fieldMapping' = createFieldNameMapping(existing)
               /\ existingNormalizedNames' = existingNames
               /\ urlFieldNames' = {existing[k].field_name :
                                      k \in {x \in DOMAIN existing : existing[x].type = 15}}
               /\ numberFieldNames' = {existing[k].field_name :
                                         k \in {x \in DOMAIN existing : existing[x].type = 2}}
               /\ allFieldNames' = collected.allFieldNames
               /\ normalizedToAliases' = collected.normalizedToAliases
               /\ missingFields' = computeMissingFields(collected.normalizedToIncoming,
                                                        existingNames)
               /\ missingIndex' = 1
               /\ rpc' = "create"
               /\ UNCHANGED response
       ELSE /\ rpc' = "responded"
            /\ response' = FailedRun("Failed to get table fields")
            /\ UNCHANGED <<fieldMapping, urlFieldNames, numberFieldNames,
                           existingNormalizedNames, allFieldNames, normalizedToAliases,
                           missingFields, missingIndex>>
  /\ UNCHANGED <<records, fieldTypes, i, result, calls, inFlight, bpc>>
  /\ UNCHANGED <<remoteVars, pageVars, normVars, parseVars, matchVars>>

\* faulty variant: logs a failed creation and goes on with the next field
RouteCreateField_skipFailure ==
  /\ rpc = "create"
  /\ missingIndex <= Len(missingFields)
  /\ LET fieldName == missingFields[missingIndex]
         normalizedFieldName == normalizeFieldName(fieldName)
         fieldType == resolveFieldType(fieldName, records, fieldTypes, normalizedToAliases)
     IN \E ok \in BOOLEAN :
          /\ createCalls' = Append(createCalls,
               [field_name |-> fieldName, type |-> fieldType, ok |-> ok])
          /\ IF ok
             THEN /\ remoteFields' = Append(remoteFields, Field(fieldName, fieldType))
                  /\ fieldMapping' = MapSet(fieldMapping, normalizedFieldName, fieldName)
                  /\ existingNormalizedNames' =
                       existingNormalizedNames \cup {normalizedFieldName}
                  /\ urlFieldNames' = IF fieldType = 15
                                      THEN urlFieldNames \cup {fieldName}
                                      ELSE urlFieldNames
                  /\ numberFieldNames' = IF fieldType = 2
                                         THEN numberFieldNames \cup {fieldName}
                                         ELSE numberFieldNames
             ELSE UNCHANGED <<remoteFields, fieldMapping, existingNormalizedNames,
                              urlFieldNames, numberFieldNames>>
          /\ missingIndex' = missingIndex + 1
          /\ UNCHANGED <<rpc, response>>
  /\ UNCHANGED <<records, fieldTypes, allFieldNames, normalizedToAliases, missingFields,
                 i, result, calls, inFlight, bpc>>
  /\ UNCHANGED <<pageVars, normVars, parseVars, matchVars>>

\* route.ts POST step 5, one turn of the loop over missingFields: the type is
\* resolved, createField is awaited; on success the run-scoped sets are updated,
\* on failure the error is rethrown to the catch block
RouteCreateField ==
  /\ rpc = "create"
  /\ missingIndex <= Len(missingFields)
  /\ LET fieldName == missingFields[missingIndex]
         normalizedFieldName == normalizeFieldName(fieldName)
         fieldType == resolveFieldType(fieldName, records, fieldTypes, normalizedToAliases)
     IN \E ok \in BOOLEAN :
          /\ createCalls' = Append(createCalls,
               [field_name |-> fieldName, type |-> fieldType, ok |-> ok])
          /\ IF ok
             THEN /\ remoteFields' = Append(remoteFields, Field(fieldName, fieldType))
                  /\ fieldMapping' = MapSet(fieldMapping, normalizedFieldName, fieldName)
                  /\ existingNormalizedNames' =
                       existingNormalizedNames \cup {normalizedFieldName}
                  /\ urlFieldNames' = IF fieldType = 15
                                      THEN urlFieldNames \cup {fieldName}
                                      ELSE urlFieldNames
                  /\ numberFieldNames' = IF fieldType = 2
                                         THEN numberFieldNames \cup {fieldName}
                                         ELSE numberFieldNames
                  /\ missingIndex' = missingIndex + 1
                  /\ UNCHANGED <<rpc, response>>
             ELSE /\ rpc' = "responded"
                  /\ response' = FailedRun("Failed to create field")
                  /\ UNCHANGED <<remoteFields, fieldMapping, existingNormalizedNames,
                                 urlFieldNames, numberFieldNames, missingIndex>>
  /\ UNCHANGED <<records, fieldTypes, allFieldNames, normalizedToAliases, missingFields,
                 i, result, calls, inFlight, bpc>>
  /\ UNCHANGED <<pageVars, normVars, parseVars, matchVars>>

\* route.ts POST step 6: every missing field is created, batchCreateRecords is
\* called
RouteStartBatch ==
  /\ rpc = "create"
  /\ missingIndex > Len(missingFields)
  /\ rpc' = "batch"
  /\ i' = 0
  /\ result' = EmptyBatchCreateResult
  /\ bpc' = "loop"
  /\ UNCHANGED <<batchArgs, calls, inFlight, routeLocals, response>>
  /\ UNCHANGED <<remoteVars, pageVars, normVars, parseVars, matchVars>>

\* route.ts POST: batchCreateRecords returned, the JSON response is built
RouteRespond ==
  /\ rpc = "batch"
  /\ bpc = "returned"
  /\ response' =
       [status |-> 200,
        success |-> (result.failedCount = 0),
        error |-> IF result.failedCount > 0 /\ Len(result.errors) > 0
                  THEN result.errors[1].error ELSE "",
        hasData |-> TRUE,
        totalRecords |-> Len(records),
        successCount |-> result.successCount,
        failedCount |-> result.failedCount,
        errors |-> result.errors,
        createdFieldsCount |-> Len(missingFields)]
  /\ rpc' = "responded"
  /\ bpc' = "off"
  /\ UNCHANGED <<batchArgs, i, result, calls, inFlight, routeLocals>>
  /\ UNCHANGED <<remoteVars, pageVars, normVars, parseVars, matchVars>>

\* page.tsx handleImport: the locals after the response to one chunk, lines
\* 343-374; delivered is FALSE when fetch or response.json() threw
AccountChunk(locals, batchLen, delivered, res) ==
  IF ~delivered
  THEN [locals EXCEPT
          !.errors = PushBatchErrors(@, locals.i, batchLen, "network"),
          !.failedCount = @ + batchLen]
  ELSE IF res.status # 200 \/ ~res.success
  THEN LET errorMsg == IF res.error # "" THEN res.error
                       ELSE IF res.hasData /\ res.errors # <<>> /\ res.errors[1].error # ""
                            THEN res.errors[1].error
                            ELSE "import failed"
       IN [locals EXCEPT
             !.errors = PushBatchErrors(@, locals.i, batchLen, errorMsg),
             !.failedCount = @ + batchLen]
  ELSE [locals EXCEPT
          !.successCount = @ + (IF res.hasData /\ res.successCount # 0
                                THEN res.successCount ELSE batchLen),
          !.failedCount = @ + (IF res.hasData THEN res.failedCount ELSE 0),
          !.createdFieldsCount = @ + (IF res.hasData THEN res.createdFieldsCount ELSE 0),
          !.errors = IF res.hasData
                     THEN @ \o [k \in DOMAIN res.errors |->
                                  [index |-> locals.i + res.errors[k].index,
                                   error |-> res.errors[k].error]]
                     ELSE @]

\* page.tsx handleImport: the awaited POST resolves or throws, the chunk is
\* accounted for, the progress is updated and the loop variable advances
PageReceive ==
  /\ ppc = "await"
  /\ rpc = "responded"
  /\ \E delivered \in BOOLEAN :
       LET batchLen == Len(BatchSlice(allRecords, imp.i))
           locals == AccountChunk(imp, batchLen, delivered, response)
       IN /\ imp' = [locals EXCEPT !.i = @ + BATCH_SIZE]
          /\ importProgress' =
               [importProgress EXCEPT
                  !.current = Min(imp.i + BATCH_SIZE, Len(allRecords)),
                  !.successCount = locals.successCount,
                  !.failedCount = locals.failedCount,
                  !.errors = locals.errors]
  /\ rpc' = "off"
  /\ ppc' = "loop"
  /\ UNCHANGED <<routeLocals, response, batchVars, remoteVars>>
  /\ UNCHANGED <<step, parsedRecords, validationVars, allRecords, summary, pageError>>
  /\ UNCHANGED <<normVars, parseVars, matchVars>>

\* faulty variant: the wizard moves to success whatever the failed count is
PageFinish_alwaysSuccess ==
  /\ ppc = "loop"
  /\ ~(imp.i < Len(allRecords))
  /\ importProgress' = [importProgress EXCEPT !.status = "completed"]
  /\ summary' = [isSet |-> TRUE, totalRecords |-> Len(allRecords),
                 successCount |-> imp.successCount, failedCount |-> imp.failedCount,
                 createdFieldsCount |-> imp.createdFieldsCount]
  /\ step' = "success"
  /\ ppc' = "done"
  /\ UNCHANGED <<parsedRecords, validationVars, allRecords, imp, pageError>>
  /\ UNCHANGED <<normVars, parseVars, matchVars, batchVars, remoteVars, routeVars>>

\* page.tsx handleImport after the loop: the progress is completed, the summary
\* is set and the wizard moves to success when nothing failed
PageFinish ==
  /\ ppc = "loop"
  /\ ~(imp.i < Len(allRecords))
  /\ importProgress' = [importProgress EXCEPT !.status = "completed"]
  /\ summary' = [isSet |-> TRUE, totalRecords |-> Len(allRecords),
                 successCount |-> imp.successCount, failedCount |-> imp.failedCount,
                 createdFieldsCount |-> imp.createdFieldsCount]
  /\ step' = IF imp.failedCount = 0 THEN "success" ELSE step
  /\ ppc' = "done"
  /\ UNCHANGED <<parsedRecords, validationVars, allRecords, imp, pageError>>
  /\ UNCHANGED <<normVars, parseVars, matchVars, batchVars, remoteVars, routeVars>>

\* page.tsx handleImport called again from the preview screen, whose buttons
\* are enabled once the progress is no longer "importing": an import that
\* completed with failures left the wizard on preview
HandleImportAgain ==
  /\ step = "preview"
  /\ ppc = "done"
  /\ imp.run < MaxImports
  /\ \E selected \in FieldTypeChoices :
       LET transformed == [k \in DOMAIN parsedRecords |->
                             withRawJson(parsedRecords[k], fieldMappingDecision)]
       IN /\ transformed # <<>>
          /\ allRecords' = transformed
          /\ imp' = [NoImport EXCEPT !.fieldTypes = selected, !.run = imp.run + 1]
          /\ importProgress' = [IdleProgress EXCEPT !.total = Len(transformed),
                                                    !.status = "importing"]
  /\ pageError' = ""
  /\ ppc' = "loop"
  /\ UNCHANGED <<step, parsedRecords, validationVars, summary>>
  /\ UNCHANGED <<normVars, parseVars, matchVars, batchVars, remoteVars, routeVars>>

\* page.tsx handleValidationCancel: back to the upload step, the validation
\* result and the fields that were read are dropped
ValidationCancel ==
  /\ step = "validation"
  /\ step' = "upload"
  /\ validationResult' = EmptyValidationResult
  /\ existingFields' = <<>>
  /\ UNCHANGED <<parsedRecords, similarDecisions, approvedNew, fieldMappingDecision,
                 allRecords, imp, ppc, importProgress, summary, pageError>>
  /\ UNCHANGED <<normVars, parseVars, matchVars, batchVars, remoteVars, routeVars>>

\* page.tsx handleCancel, the cancel button of FieldPreview (disabled while
\* the progress is "importing"): back to validation, the error and the
\* progress are cleared; FieldValidation mounts again with its defaults
Cancel ==
  /\ step = "preview"
  /\ ppc \in {"idle", "done"}
  /\ step' = "validation"
  /\ pageError' = ""
  /\ importProgress' = IdleProgress
  /\ similarDecisions' =
       [f \in {validationResult.similarMatches[k].jsonField :
                 k \in DOMAIN validationResult.similarMatches} |-> "existing"]
  /\ approvedNew' = RangeOf(validationResult.newFields)
  /\ ppc' = "idle"
  /\ UNCHANGED <<parsedRecords, existingFields, validationResult, fieldMappingDecision,
                 allRecords, imp, summary>>
  /\ UNCHANGED <<normVars, parseVars, matchVars, batchVars, remoteVars, routeVars>>

\* page.tsx handleReset, the button of the success screen: every piece of the
\* wizard's state goes back to its initial value
Reset ==
  /\ step = "success"
  /\ summary.isSet
  /\ step' = "upload"
  /\ parsedRecords' = <<>>
  /\ pageError' = ""
  /\ importProgress' = IdleProgress
  /\ summary' = NoSummary
  /\ existingFields' = <<>>
  /\ validationResult' = EmptyValidationResult
  /\ fieldMappingDecision' = NoDecision
  /\ ppc' = "idle"
  /\ UNCHANGED <<similarDecisions, approvedNew, allRecords, imp>>
  /\ UNCHANGED <<normVars, parseVars, matchVars, batchVars, remoteVars, routeVars>>

\* the tables and the single-chunk uploads of the wizard with back edges
WizardSchemas ==
  {<<>>, <<Field(<<"a">>, 1), Field(<<"Fa">>, 15)>>}

WizardUploads ==
  {<<<<Entry(<<"a">>, JsNumber("20"))>>>>,
   <<<<Entry(<<"Fa">>, JsString("21"))>>>>}

\* page.tsx handleJsonParsed: the uploader hands over the files it parsed
JsonParsed ==
  /\ step = "upload"
  /\ ppc = "idle"
  /\ \E files \in WizardUploads :
       /\ files # parsedRecords
       /\ parsedRecords' = files
  /\ UNCHANGED <<step, validationVars, allRecords, imp, ppc, importProgress, summary,
                 pageError>>
  /\ UNCHANGED <<normVars, parseVars, matchVars, batchVars, remoteVars, routeVars>>

Next ==
  \/ ProceedToValidation
  \/ SimilarDecision
  \/ ToggleNewFieldApproval
  \/ Approve
  \/ HandleImport
  \/ PageSendChunk
  \/ RouteToken
  \/ RouteGetFields
  \/ RouteCreateField
  \/ RouteStartBatch
  \/ BatchIssue
  \/ BatchResolve
  \/ BatchReturn
  \/ RouteRespond
  \/ PageReceive
  \/ PageFinish

Spec == Init /\ [][Next]_vars

\* ------------------------------------------------ the wizard with its back
\* edges: uploads may be replaced, both cancel buttons and the reset button
\* are available, and an import may be started MaxImports times
InitWizard ==
  /\ remoteFields \in WizardSchemas
  /\ createCalls = <<>>
  /\ parsedRecords \in WizardUploads
  /\ step = "upload"
  /\ existingFields = <<>>
  /\ validationResult = EmptyValidationResult
  /\ similarDecisions = EmptyMap
  /\ approvedNew = {}
  /\ fieldMappingDecision = NoDecision
  /\ allRecords = <<>>
  /\ imp = NoImport
  /\ ppc = "idle"
  /\ importProgress = IdleProgress
  /\ summary = NoSummary
  /\ pageError = ""
  /\ RouteOff
  /\ BatchOff
  /\ NormOff /\ ParseOff
  /\ MatchOff

NextWizard ==
  \/ JsonParsed
  \/ ProceedToValidation
  \/ SimilarDecision
  \/ ToggleNewFieldApproval
  \/ Approve
  \/ ValidationCancel
  \/ Cancel
  \/ HandleImport
  \/ HandleImportAgain
  \/ PageSendChunk
  \/ RouteToken
  \/ RouteGetFields
  \/ RouteCreateField
  \/ RouteStartBatch
  \/ BatchIssue
  \/ BatchResolve
  \/ BatchReturn
  \/ RouteRespond
  \/ PageReceive
  \/ PageFinish
  \/ Reset

SpecWizard == InitWizard /\ [][NextWizard]_vars

\* the names of the fields created so far by createField
CreatedFieldNames == {createCalls[c].field_name : c \in {k \in DOMAIN createCalls : createCalls[k].ok}}

UnapprovedNewFields ==
  RangeOf(validationResult.newFields) \ fieldMappingDecision.approvedNewFields

ForceNewFields ==
  {f \in DOMAIN fieldMappingDecision.similarMappings :
     fieldMappingDecision.similarMappings[f] = Null}

\* C9: a new field the caller did not approve is never created in the remote
\* schema and its entries are removed from every outgoing record, so no value of
\* an unapproved new field is written.
C9_UnapprovedNeverWritten ==
  fieldMappingDecision.isSet =>
    \A f \in UnapprovedNewFields :
      /\ f \notin CreatedFieldNames
      /\ \A k \in DOMAIN allRecords : ~ObjHas(allRecords[k], f)
      /\ \A c \in DOMAIN calls :
           \A k \in DOMAIN calls[c].records : ~ObjHas(calls[c].records[k], f)

HasValue(record, f) ==
  /\ ObjHas(record, f)
  /\ ObjGet(record, f).t \notin {"null", "undefined"}
  /\ ObjGet(record, f) # JsString("")

\* C10: the fields the synchronizer creates are exactly the caller-approved new
\* fields plus the similar matches resolved to force-new; a force-new name gets
\* its own remote field under the incoming literal name and its values are
\* written to that field, not to the colliding existing one.  The raw-JSON
\* column the page adds to every record is not a field of the incoming data and
\* is left out of the comparison.
C10_CreatedSetIsDecision ==
  /\ rpc = "batch" =>
       CreatedFieldNames \ {RawJsonKey} =
         fieldMappingDecision.approvedNewFields \cup ForceNewFields
  /\ \A c \in DOMAIN calls :
       \A k \in DOMAIN calls[c].records :
         \A f \in ForceNewFields :
           HasValue(parsedRecords[calls[c].start + k], f) =>
             ObjHas(calls[c].records[k], f)

\* ------------------------------------- one POST /api/import alone (SpecRoute)
\* the values a JSON record can hold
ValuePool ==
  {JsNull, JsNumber("20"), JsBoolean("true"), JsArray("[\"x\",\"y\"]"),
   JsObject("{\"k\":1}")}
  \cup {JsString(text) : text \in {"", " ", "x", "21", " 21 ", "https://a.b",
                                   "http://", "HTTP://A.B", "ftp://a.b"}}

\* the keys of the request's records
RouteKeyPool == {<<"a">>, <<"Fa">>, <<"b">>}

\* body.records: one record with one entry of any value, records of the
\* upload pool (two spellings of one normalized name among them), or more
\* records than one bulk-create call takes
RouteRequests ==
  {<<<<Entry(k, v)>>>> : k \in RouteKeyPool, v \in ValuePool}
  \cup SeqsOfLen(RecordPool, MaxUploadRecords)
  \cup BigUploads

InitRoute ==
  /\ remoteFields \in Schemas
  /\ createCalls = <<>>
  /\ records \in RouteRequests
  /\ fieldTypes \in FieldTypeChoices
  /\ rpc = "token"
  /\ response = NoResponse
  /\ existingNormalizedNames = {}
  /\ allFieldNames = {}
  /\ normalizedToAliases = EmptyMap
  /\ missingFields = <<>>
  /\ missingIndex = 0
  /\ fieldMapping = EmptyMap
  /\ urlFieldNames = {}
  /\ numberFieldNames = {}
  /\ i = 0
  /\ result = EmptyBatchCreateResult
  /\ calls = <<>>
  /\ inFlight = 0
  /\ bpc = "off"
  /\ PageOff
  /\ NormOff /\ ParseOff
  /\ MatchOff

NextRoute ==
  \/ RouteToken
  \/ RouteGetFields
  \/ RouteCreateField
  \/ RouteStartBatch
  \/ BatchIssue
  \/ BatchResolve
  \/ BatchReturn
  \/ RouteRespond

SpecRoute == InitRoute /\ [][NextRoute]_vars

\* the remote fields that existed when the c-th createField call was issued
FieldsBeforeCall(c) ==
  SubSeq(remoteFields, 1,
         Len(remoteFields)
           - Cardinality({d \in DOMAIN createCalls : d >= c /\ createCalls[d].ok}))

AliasesOf(fieldName) ==
  {k \in UNION {RangeOf(ObjKeys(records[r])) : r \in DOMAIN records} :
     normalizeFieldName(k) = normalizeFieldName(fieldName)}

IsPresent(value) == value.t \notin {"null", "undefined"}

\* the records in which the name or one of its aliases has a value
RecordsWithValue(fieldName) ==
  LET aliases == AliasesOf(fieldName)
  IN {r \in DOMAIN records : \E a \in aliases : IsPresent(ObjGet(records[r], a))}

\* C12: a field is created with the caller-supplied type of its name or of an
\* alias sharing its normalized form when one is supplied; otherwise with the
\* type inferred from the first non-null, non-undefined value found scanning
\* the records in order for the name or an alias, and with text when there is
\* no such value.
C12_CreatedType ==
  \A c \in DOMAIN createCalls :
    LET fieldName == createCalls[c].field_name
        supplied == {a \in AliasesOf(fieldName) : MapHas(fieldTypes, a)}
        withValue == RecordsWithValue(fieldName)
    IN IF supplied # {}
       THEN createCalls[c].type \in {larkTypeToNumber(fieldTypes[a]) : a \in supplied}
       ELSE IF withValue # {}
       THEN LET first == SetMin(withValue)
            IN createCalls[c].type \in
                 {inferFieldType(ObjGet(records[first], a)) :
                    a \in {b \in AliasesOf(fieldName) :
                             IsPresent(ObjGet(records[first], b))}}
       ELSE createCalls[c].type = 1

\* field "a" is created as url because the caller chose url for its alias,
\* although the first value found is a number
C12_Witness ==
  /\ createCalls # <<>>
  /\ createCalls[1].field_name = <<"a">>
  /\ ~MapHas(fieldTypes, <<"a">>)
  /\ MapHas(fieldTypes, <<"Fa">>)
  /\ createCalls[1].type = 15
  /\ ObjGet(records[1], <<"a">>).t = "number"

\* a string that parses as an absolute URL with protocol http or https
IsAbsoluteHttpUrl(text) == UrlProtocol(text) \in {"http:", "https:"}

\* the ordered rules of type inference: text 1, number 2, checkbox 7, url 15
TypeByRules(value) ==
  IF value.t \in {"null", "undefined"} THEN 1
  ELSE IF value.t = "number" THEN 2
  ELSE IF value.t = "boolean" THEN 7
  ELSE IF value.t \in {"array", "object"} THEN 1
  ELSE IF value.t = "string" /\ IsAbsoluteHttpUrl(value.v) THEN 15
  ELSE 1

\* C13: inferFieldType maps every value to one type by the ordered rules
\* null/undefined -> text, number -> number, boolean -> checkbox, array or
\* object -> text, string that is an absolute http/https URL -> url, any other
\* string -> text.  Read on the fields created without a caller-supplied type.
C13_InferByRules ==
  \A c \in DOMAIN createCalls :
    LET fieldName == createCalls[c].field_name
        withValue == RecordsWithValue(fieldName)
    IN (\A a \in AliasesOf(fieldName) : ~MapHas(fieldTypes, a)) =>
         IF withValue # {}
         THEN createCalls[c].type \in
                {TypeByRules(ObjGet(records[SetMin(withValue)], a)) :
                   a \in {b \in AliasesOf(fieldName) :
                            IsPresent(ObjGet(records[SetMin(withValue)], b))}}
         ELSE createCalls[c].type = 1

RunReportsFailure ==
  /\ rpc = "responded"
  /\ response.status = 500
  /\ ~response.success
  /\ response.error # ""

\* C14: when the schema read or a field-creation call fails the run fails as a
\* whole: no bulk-create call and no further field creation follows, the failed
\* call is not repeated, the response reports failure, and the fields created
\* before the failure stay in the remote schema.
C14_SchemaFailureFailsRun ==
  /\ \A c \in DOMAIN createCalls :
       /\ ~createCalls[c].ok =>
            /\ c = Len(createCalls)
            /\ calls = <<>>
            /\ bpc = "off"
            /\ RunReportsFailure
            /\ \A d \in DOMAIN createCalls :
                 createCalls[d].field_name = createCalls[c].field_name => d = c
       /\ createCalls[c].ok =>
            \E k \in DOMAIN remoteFields :
              remoteFields[k] = Field(createCalls[c].field_name, createCalls[c].type)
  /\ response.error = "Failed to get table fields" =>
       /\ createCalls = <<>>
       /\ calls = <<>>
       /\ bpc = "off"
       /\ RunReportsFailure

\* the second creation failed: the run reports failure, the first field stays
C14_Witness ==
  /\ rpc = "responded"
  /\ Len(createCalls) = 2
  /\ createCalls[1].ok
  /\ ~createCalls[2].ok
  /\ \E k \in DOMAIN remoteFields : remoteFields[k].field_name = createCalls[1].field_name
  /\ response.status = 500

\* C15: in one import every field creation is issued before the first
\* bulk-write call; no field-creation call is issued once a bulk write of the
\* import has begun, also when the import is sent as several chunks.
C15_CreationsBeforeWrites ==
  [][createCalls' # createCalls => calls = <<>>]_vars

\* the field a record key is written to: the existing or created field with
\* the key's normalized name, else the key itself
TargetOf(key) ==
  LET mapped == MapGet(fieldMapping, normalizeFieldName(key))
  IN IF Truthy(mapped) THEN mapped ELSE key

\* the entries of a record whose target no other entry of the record shares
SoleEntries(record) ==
  {e \in DOMAIN record :
     \A f \in DOMAIN record : TargetOf(record[f].key) = TargetOf(record[e].key) => f = e}

IsEmptyValue(value) == value \in {JsNull, JsUndefined, JsString("")}

\* P(input entry, outgoing record) for every entry of every record sent so far
ForEverySentEntry(P(_, _)) ==
  \A c \in DOMAIN calls :
    \A k \in DOMAIN calls[c].records :
      \A e \in SoleEntries(records[calls[c].start + k]) :
        P(records[calls[c].start + k][e], calls[c].records[k])

C16_Entry(entry, out) ==
  LET target == TargetOf(entry.key)
  IN /\ IsEmptyValue(entry.value) => ~ObjHas(out, target)
     /\ (~IsEmptyValue(entry.value) /\ target \notin urlFieldNames \cup numberFieldNames) =>
          /\ ObjHas(out, target)
          /\ ObjGet(out, target) = JsString(entry.value.v)

\* C16: processFieldValues drops an entry whose value is null, undefined or the
\* empty string whatever the type of its target; every other entry of a target
\* that is neither URL nor number typed is kept, arrays and objects as their
\* JSON text and all other values as strings.
C16_EmptyDroppedOthersStringified == ForEverySentEntry(C16_Entry)

\* an array is sent as its JSON text under its target field
C16_Witness ==
  /\ calls # <<>>
  /\ records[1][1].value.t = "array"
  /\ calls[1].records[1] = <<Entry(TargetOf(records[1][1].key), JsString("[\"x\",\"y\"]"))>>

C17_Entry(entry, out) ==
  LET target == TargetOf(entry.key)
  IN target \in urlFieldNames =>
       IF entry.value.t = "string" /\ IsAbsoluteHttpUrl(entry.value.v)
       THEN /\ ObjHas(out, target)
            /\ ObjGet(out, target) = [t |-> "link", v |-> entry.value.v]
       ELSE ~ObjHas(out, target)

\* C17: for a URL-typed target processFieldValues keeps the entry iff the value
\* is a string that parses as an absolute URL with protocol http or https, as
\* {link: value, text: value}; every other value is dropped from the record.
C17_UrlKeptIffValid == ForEverySentEntry(C17_Entry)

\* a valid URL is sent in link shape to a URL-typed field
C17_Witness ==
  /\ calls # <<>>
  /\ records[1][1].value = JsString("https://a.b")
  /\ TargetOf(records[1][1].key) \in urlFieldNames
  /\ ObjGet(calls[1].records[1], TargetOf(records[1][1].key)).t = "link"

IsNumericString(value) ==
  /\ value.t = "string"
  /\ value.v \notin BlankStrings
  /\ StringToNumber(value.v) # "NaN"

C18_Entry(entry, out) ==
  LET target == TargetOf(entry.key)
  IN target \in numberFieldNames =>
       /\ entry.value.t = "number" => ObjGet(out, target) = entry.value
       /\ IsNumericString(entry.value) =>
            ObjGet(out, target) = JsNumber(StringToNumber(entry.value.v))
       /\ (entry.value.t # "number" /\ ~IsNumericString(entry.value)) =>
            ~ObjHas(out, target)
       /\ ObjHas(out, target) => ObjGet(out, target).t = "number"

\* C18: for a number-typed target processFieldValues keeps native numbers,
\* converts non-empty numeric strings to the number they denote and drops every
\* other value; it never emits a non-number for a number-typed field.
C18_NumberKeptOrConverted == ForEverySentEntry(C18_Entry)

\* the string " 21 " is sent as the number 21 to a number-typed field
C18_Witness ==
  /\ calls # <<>>
  /\ records[1][1].value = JsString(" 21 ")
  /\ TargetOf(records[1][1].key) \in numberFieldNames
  /\ ObjGet(calls[1].records[1], TargetOf(records[1][1].key)) = JsNumber("21")

(***************************************************************************)
(* One call of parseAndValidateJson (SpecParse)                            *)
(***************************************************************************)
\* the longest string body drawn from BodyChars
MaxBodyLen == 3

BodyChars == {"x", "1", " ", ",", Quote, Backslash, "ZWSP"}

RECURSIVE BodiesOfLen(_)
BodiesOfLen(n) ==
  IF n = 0 THEN {<<>>}
  ELSE {<<ch>> \o body : ch \in BodyChars, body \in BodiesOfLen(n - 1)}

\* he said "hi" to me
HeSaidHi ==
  <<"h", "e", " ", "s", "a", "i", "d", " ", Quote, "h", "i", Quote, " ",
    "t", "o", " ", "m", "e">>

\* a "b" c
ABC == <<"a", " ", Quote, "b", Quote, " ", "c">>

Bodies == UNION {BodiesOfLen(n) : n \in 0..MaxBodyLen} \cup {HeSaidHi, ABC}

\* {"a": "<body>"}
ObjectText(body) ==
  <<"{", Quote, "a", Quote, ":", " ", Quote>> \o body \o <<Quote, "}">>

\* ["<body>", "d"]
ArrayText(body) ==
  <<"[", Quote>> \o body \o <<Quote, ",", " ", Quote, "d", Quote, "]">>

\* {"a": "<body>", "b": 1} inside an array, with invisible characters around
RecordsText(body) ==
  <<"BOM", " ", "[", "{", Quote, "a", Quote, ":", Quote>> \o body
    \o <<Quote, ",", Quote, "b", Quote, ":", "1", "}", "]", "ZWSP", "\n">>

OtherTexts ==
  { <<>>, <<" ", "ZWSP">>,
    <<"[", "]">>, <<"{", "}">>, <<"[", "1", "]">>, <<Quote, "x", Quote>>,
    <<"n", "u", "l", "l">>, <<"{", Quote, "a", Quote, ":", "1">>,
    <<"1">>, <<"t", "r", "u", "e">>, <<"[", "[", "]", "]">>, <<"[", "n", "u", "l", "l", "]">>,
    \* [{"a":1},{"b":1}] and [{"a":1},1]
    <<"[", "{", Quote, "a", Quote, ":", "1", "}", ",",
      "{", Quote, "b", Quote, ":", "1", "}", "]">>,
    <<"[", "{", Quote, "a", Quote, ":", "1", "}", ",", "1", "]">>,
    \* {"a": "x<TAB>y"} and {"a": "x "y"<TAB>"}
    ObjectText(<<"x", "\t", "y">>), ObjectText(<<"x", " ", Quote, "y", Quote, "\t">>),
    \* an element that is true, an object, a list, a string
    ArrayText(<<"x", Quote, ",", "t", "r", "u", "e">>),
    ArrayText(<<"x", Quote, ",", "{">>),
    ArrayText(<<"x", Quote, ",", "[">>),
    ArrayText(<<"x", Quote, ",", Quote, "y", Quote, ",", Quote, "z">>),
    \* {"a": "x", "b" is", "c": 1} and {"a": "x","b": "y"}
    <<"{", Quote, "a", Quote, ":", " ", Quote, "x", Quote, ",", " ", Quote, "b", Quote,
      " ", "i", "s", Quote, ",", " ", Quote, "c", Quote, ":", " ", "1", "}">>,
    <<"{", Quote, "a", Quote, ":", " ", Quote, "x", Quote, ",", Quote, "b", Quote,
      ":", " ", Quote, "y", Quote, "}">> }

Texts ==
  {ObjectText(body) : body \in Bodies} \cup {ArrayText(body) : body \in Bodies}
    \cup {RecordsText(body) : body \in {<<"x">>, ABC}} \cup OtherTexts

InitParse ==
  /\ content \in Texts
  /\ sanitized = <<>> /\ repair = RepairStart
  /\ parsedFile = NoParsedFile /\ jstage = 0 /\ jpc = "start"
  /\ NormOff /\ MatchOff /\ BatchOff /\ RemoteOff /\ RouteOff /\ PageOff

parseFrame == <<normVars, matchVars, batchVars, remoteVars, routeVars, pageVars>>

\* const sanitized = sanitizeJsonText(content); if (!sanitized) return ...
JsonSanitize ==
  /\ jpc = "start"
  /\ sanitized' = sanitizeJsonText(content)
  /\ IF sanitized' = <<>>
     THEN parsedFile' = ParsedError("emptyInput") /\ jpc' = "done"
     ELSE parsedFile' = parsedFile /\ jpc' = "parse"
  /\ UNCHANGED <<content, repair, jstage, parseFrame>>

\* try { parsed = JSON.parse(sanitized) } catch (e1) { ... repairJsonQuotes
\* faulty variant: the repair is attempted whatever the direct parse gives
JsonParseDirect_alwaysRepair ==
  /\ jpc = "parse"
  /\ jpc' = "repair"
  /\ UNCHANGED <<content, sanitized, repair, parsedFile, jstage, normVars, matchVars,
                 batchVars, remoteVars, routeVars, pageVars>>

JsonParseDirect ==
  /\ jpc = "parse"
  /\ LET parsed == JsonParse(sanitized)
     IN  IF parsed.ok
         THEN parsedFile' = validateShape(parsed.value) /\ jstage' = 1 /\ jpc' = "done"
         ELSE parsedFile' = parsedFile /\ jstage' = jstage /\ jpc' = "repair"
  /\ UNCHANGED <<content, sanitized, repair, parseFrame>>

\* one iteration of while (i < text.length) in repairJsonQuotes
JsonRepairStep ==
  /\ jpc = "repair"
  /\ repair.i <= Len(sanitized)
  /\ repair' = repairStep(sanitized, repair)
  /\ UNCHANGED <<content, sanitized, parsedFile, jstage, jpc, parseFrame>>

\* parsed = JSON.parse(repaired), and the catch that leads to the third try
JsonParseRepaired ==
  /\ jpc = "repair"
  /\ repair.i > Len(sanitized)
  /\ LET parsed == JsonParse(repair.result)
     IN  IF parsed.ok
         THEN parsedFile' = validateShape(parsed.value) /\ jstage' = 2 /\ jpc' = "done"
         ELSE parsedFile' = parsedFile /\ jstage' = jstage /\ jpc' = "escape"
  /\ UNCHANGED <<content, sanitized, repair, parseFrame>>

\* the third try: repairJsonQuotes again, the control-character pass, JSON.parse
JsonParseEscaped ==
  /\ jpc = "escape"
  /\ LET parsed == JsonParse(escapeInStrings(repairJsonQuotes(sanitized), 1))
     IN  IF parsed.ok
         THEN parsedFile' = validateShape(parsed.value) /\ jstage' = 3
         ELSE parsedFile' = ParsedError("parseFailed") /\ jstage' = jstage
  /\ jpc' = "done"
  /\ UNCHANGED <<content, sanitized, repair, parseFrame>>

NextParse ==
  \/ JsonSanitize
  \/ JsonParseDirect
  \/ JsonRepairStep
  \/ JsonParseRepaired
  \/ JsonParseEscaped

SpecParse == InitParse /\ [][NextParse]_vars

(***************************************************************************)
(* C19: quote repair                                                       *)
(***************************************************************************)
\* the positions of the double quotes of a string body that are not the
\* second half of a backslash pair
RECURSIVE UnescapedQuotes(_, _)
UnescapedQuotes(body, p) ==
  IF p > Len(body) THEN {}
  ELSE IF body[p] = Backslash THEN UnescapedQuotes(body, p + 2)
  ELSE IF body[p] = Quote THEN {p} \cup UnescapedQuotes(body, p + 1)
  ELSE UnescapedQuotes(body, p + 1)

\* the body with exactly those quotes backslash-escaped
RECURSIVE EscapeQuotes(_, _)
EscapeQuotes(body, p) ==
  IF p > Len(body) THEN <<>>
  ELSE IF body[p] = Backslash
  THEN SubSeq(body, p, IF p < Len(body) THEN p + 1 ELSE p) \o EscapeQuotes(body, p + 2)
  ELSE IF body[p] = Quote THEN <<Backslash, Quote>> \o EscapeQuotes(body, p + 1)
  ELSE <<body[p]>> \o EscapeQuotes(body, p + 1)

\* the character after position p and the whitespace that follows it is
\* none of end-of-text, }, ], : and ,
FollowedByContent(text, p) ==
  CharAt(text, SkipClass(text, p + 1, RegexWhitespace)) \notin {"", "}", "]", ":", ","}

ObjectPrefixLen == Len(ObjectText(<<>>)) - 2

IsObjectText(text) ==
  /\ Len(text) >= ObjectPrefixLen + 2
  /\ text = ObjectText(SubSeq(text, ObjectPrefixLen + 1, Len(text) - 2))

BodyOf(text) == SubSeq(text, ObjectPrefixLen + 1, Len(text) - 2)

\* the text is {"a": "<body>"}, the body has embedded quotes, each followed by
\* content, and the text with those quotes escaped is valid JSON
QuoteRepairCase(text) ==
  /\ IsObjectText(text)
  /\ UnescapedQuotes(BodyOf(text), 1) # {}
  /\ \A p \in UnescapedQuotes(BodyOf(text), 1) : FollowedByContent(text, ObjectPrefixLen + p)
  /\ JsonParse(ObjectText(EscapeQuotes(BodyOf(text), 1))).ok

EscapedParse(text) ==
  validateShape(JsonParse(ObjectText(EscapeQuotes(BodyOf(text), 1))).value)

\* C19: when an object's string value holds unescaped double quotes, each
\* followed (after whitespace) by a character other than end-of-text, }, ],
\* : and , the ParsedFile returned is the one obtained by parsing the text
\* with exactly those quotes backslash-escaped.
C19_QuoteRepair ==
  (jpc = "done" /\ QuoteRepairCase(content)) => parsedFile = EscapedParse(content)

(***************************************************************************)
(* C20: the container-aware comma rule                                     *)
(***************************************************************************)
\* the containers left open by a text whose strings are properly escaped,
\* outermost first ("a" for an array, "o" for an object)
RECURSIVE OpenContainers(_, _, _, _)
OpenContainers(text, p, inStr, open) ==
  IF p > Len(text) THEN open
  ELSE IF inStr
  THEN IF text[p] = Backslash THEN OpenContainers(text, p + 2, TRUE, open)
       ELSE OpenContainers(text, p + 1, text[p] # Quote, open)
  ELSE IF text[p] = Quote THEN OpenContainers(text, p + 1, TRUE, open)
  ELSE IF text[p] = "[" THEN OpenContainers(text, p + 1, FALSE, open \o <<"a">>)
  ELSE IF text[p] = "{" THEN OpenContainers(text, p + 1, FALSE, open \o <<"o">>)
  ELSE IF text[p] \in {"]", "}"} /\ open # <<>>
  THEN OpenContainers(text, p + 1, FALSE, SubSeq(open, 1, Len(open) - 1))
  ELSE OpenContainers(text, p + 1, FALSE, open)

Innermost(text) ==
  LET open == OpenContainers(text, 1, FALSE, <<>>)
  IN  IF open = <<>> THEN "none" ELSE open[Len(open)]

\* a string starts at position s of the text and its closing quote is at e
IsStringAt(text, s, e) ==
  /\ CharAt(text, s) = Quote
  /\ e > s
  /\ e - s \in UnescapedQuotes(SubSeq(text, s + 1, Len(text)), 1)
  /\ \A q \in UnescapedQuotes(SubSeq(text, s + 1, Len(text)), 1) : q >= e - s

NextSignificant(text, p) == CharAt(text, SkipClass(text, p, RegexWhitespace))

\* the text from position p on matches a "key": pattern
MatchesKeyPattern(text, p) ==
  LET s == SkipClass(text, p, RegexWhitespace)
  IN  \E e \in s + 1..Len(text) :
        IsStringAt(text, s, e) /\ NextSignificant(text, e + 1) = ":"

\* the text from position p on begins a JSON value
BeginsJsonValue(text, p) ==
  LET s == SkipClass(text, p, RegexWhitespace)
  IN  \/ CharAt(text, s) \in Digits \cup {"-", "{", "["}
      \/ \E word \in Literals : StartsWith(text, s, word)
      \/ \E e \in s + 1..Len(text) :
           /\ IsStringAt(text, s, e)
           /\ NextSignificant(text, e + 1) \in {"", ",", "]", "}", ":"}

\* the loop of repairJsonQuotes stands, inside a string, at a quote whose next
\* significant character is a comma
AtQuoteBeforeComma ==
  /\ jpc = "repair" /\ repair.i <= Len(sanitized)
  /\ repair.inString
  /\ sanitized[repair.i] = Quote
  /\ NextSignificant(sanitized, repair.i + 1) = ","

AfterComma == SkipClass(sanitized, repair.i + 1, RegexWhitespace) + 1

CommaRule ==
  (AtQuoteBeforeComma /\ ~repair'.inString) =>
    \/ Innermost(repair.result) = "o" /\ MatchesKeyPattern(sanitized, AfterComma)
    \/ Innermost(repair.result) = "a" /\ BeginsJsonValue(sanitized, AfterComma)

\* ["a \"b\" c", "d"]
ABCRepaired ==
  <<"[", Quote, "a", " ", Backslash, Quote, "b", Backslash, Quote, " ", "c", Quote,
    ",", " ", Quote, "d", Quote, "]">>

ExampleRepair ==
  (content = ArrayText(ABC) /\ jpc \in {"escape", "done"}) =>
    /\ repair.result = ABCRepaired
    /\ JsonParse(repair.result).ok
    /\ Len(JsonParse(repair.result).value.items) = 2

\* C20: inside a string, a quote followed by a comma ends the string only if
\* the innermost container is an object and the text after the comma matches
\* a "key": pattern, or it is an array and the text after the comma begins a
\* JSON value; and ["a "b" c", "d"] repairs to the two-element array
\* ["a \"b\" c", "d"].
C20_CommaRule == [][CommaRule]_vars /\ []ExampleRepair

C20_Witness ==
  /\ content = ArrayText(ABC)
  /\ jpc = "repair"
  /\ ~repair.inString
  /\ repair.result = SubSeq(ABCRepaired, 1, 12)

(***************************************************************************)
(* C21: the stages of the parser                                          *)
(***************************************************************************)
FirstAttempt == JsonParse(sanitized)

SecondAttempt == JsonParse(repairJsonQuotes(sanitized))

ThirdAttempt == JsonParse(escapeInStrings(repairJsonQuotes(sanitized), 1))

\* the order of the stages, and each one entered only after the failure of
\* the one before
StageOrder ==
  /\ jpc = "start" => jpc' \in {"parse", "done"}
  /\ jpc = "parse" => jpc' \in {"repair", "done"}
  /\ jpc = "repair" => jpc' \in {"repair", "escape", "done"}
  /\ jpc = "escape" => jpc' = "done"
  /\ jpc = "done" => jpc' = "done"
  /\ (jpc = "parse" /\ jpc' = "repair") => ~FirstAttempt.ok
  /\ (jpc = "repair" /\ jpc' = "escape") => ~SecondAttempt.ok
  /\ jstage' # jstage =>
       \/ jpc = "parse" /\ jstage' = 1
       \/ jpc = "repair" /\ jstage' = 2
       \/ jpc = "escape" /\ jstage' = 3

StageResult ==
  jpc = "done" /\ sanitized # <<>> =>
    /\ FirstAttempt.ok =>
         /\ jstage = 1
         /\ parsedFile = validateShape(FirstAttempt.value)
         /\ repair = RepairStart
    /\ parsedFile.error = "parseFailed" <=>
         (~FirstAttempt.ok /\ ~SecondAttempt.ok /\ ~ThirdAttempt.ok)
    /\ jstage = 2 => ~FirstAttempt.ok /\ parsedFile = validateShape(SecondAttempt.value)
    /\ jstage = 3 =>
         /\ ~FirstAttempt.ok /\ ~SecondAttempt.ok
         /\ parsedFile = validateShape(ThirdAttempt.value)

\* C21: the stages run in the order direct parse, quote repair, quote repair
\* with control-character escaping, failure, each attempted only if the one
\* before failed; a text that is valid JSON after sanitization yields its
\* direct parse and the repair never runs on it; a parse failure is reported
\* only when the three attempts failed.
C21_StagedParse == [][StageOrder]_vars /\ []StageResult

C21_Witness == jpc = "done" /\ jstage = 3 /\ parsedFile.status = "pending"

(***************************************************************************)
(* C22: sanitization and string literals                                   *)
(***************************************************************************)
\* C22: zero-width characters inside a string literal are left unchanged by
\* the sanitization: a text that is valid JSON as it stands, whose zero-width
\* characters are therefore all inside string literals, yields the value of
\* its own parse, the zero-width characters included.
C22_InsideStringsKept ==
  (jpc = "done" /\ JsonParse(content).ok) =>
    parsedFile = validateShape(JsonParse(content).value)

(***************************************************************************)
(* C23: the shape check after a successful parse                           *)
(***************************************************************************)
\* the value of the JSON.parse call that succeeded
ParsedRoot ==
  IF jstage = 1 THEN FirstAttempt.value
  ELSE IF jstage = 2 THEN SecondAttempt.value
  ELSE ThirdAttempt.value

IsPlainObject(v) == v.t = "object"

\* the objects an accepted root holds, in input order; <<>> for a rejected root
AcceptedObjects(root) ==
  IF root.t = "array" /\ root.items # <<>>
       /\ \A n \in 1..Len(root.items) : IsPlainObject(root.items[n])
  THEN root.items
  ELSE IF IsPlainObject(root) /\ root.entries # <<>> THEN <<root>>
  ELSE <<>>

\* the four rejected shapes
RejectedShape(root) ==
  IF root.t = "array"
  THEN IF root.items = <<>> THEN "emptyArray" ELSE "nonObjectItem"
  ELSE IF IsPlainObject(root) THEN "emptyObject" ELSE "notObjectOrArray"

\* C23: after a successful parse the input is accepted iff the root is a
\* non-empty array of plain objects or a plain object with a key; each
\* accepted object becomes one pending record, in input order; every other
\* root gives a file with status error, no record and the message of its
\* own shape.
C23_ShapeCheck ==
  (jpc = "done" /\ jstage > 0) =>
    LET objects == AcceptedObjects(ParsedRoot)
    IN  IF objects # <<>>
        THEN /\ parsedFile.status = "pending"
             /\ Len(parsedFile.records) = Len(objects)
             /\ \A n \in 1..Len(objects) :
                  parsedFile.records[n] = [data |-> objects[n], status |-> "pending"]
        ELSE /\ parsedFile.status = "error"
             /\ parsedFile.records = <<>>
             /\ parsedFile.error = RejectedShape(ParsedRoot)
             /\ parsedFile.error \notin {"parseFailed", "emptyInput", "none"}

C23_Witness ==
  /\ jpc = "done" /\ jstage > 0
  /\ parsedFile.status = "pending"
  /\ Len(parsedFile.records) = 2
  /\ parsedFile.records[1].data # parsedFile.records[2].data

(***************************************************************************)
(* C24: failures are returned, exceptions are caught by the route          *)
(***************************************************************************)
IsBatchCreateResult(res) ==
  /\ DOMAIN res = {"successCount", "failedCount", "recordIds", "errors"}
  /\ res.successCount \in Nat /\ res.failedCount \in Nat

\* the failure kinds of the bulk-create calls resolved so far, in call order
ChunkKinds == [c \in DOMAIN calls |-> calls[c].response.kind]

\* a chunk's failure keeps control inside batchCreateRecords, and an
\* exception of the steps before it ends the run in the catch block
ReturnedNotThrown ==
  /\ bpc = "await" =>
       /\ bpc' = "loop" /\ rpc' = rpc /\ response' = response
       /\ IsBatchCreateResult(result')
  /\ (rpc \in {"token", "fields", "create"} /\ rpc' = "responded") =>
       response'.status = 500 /\ ~response'.success

FailureResponses ==
  rpc = "responded" =>
    /\ calls # <<>> => response.status = 200 /\ response.hasData
    /\ (\E c \in DOMAIN createCalls : ~createCalls[c].ok) =>
         response.status = 500 /\ ~response.success /\ calls = <<>>

\* C24: batchCreateRecords gives a BatchCreateResult for every pattern of
\* chunk failures (error code, thrown transport error, malformed body)
\* and never throws; an exception of the token exchange, the schema read or
\* a field creation is caught by the route and answered as a failed run
\* (success false, status 500).
C24_ReturnedNotThrown == [][ReturnedNotThrown]_vars /\ []FailureResponses

\* a run of two chunks: the call of the first throws, the body of the second
\* holds a records list with a null entry
C24_Witness ==
  /\ rpc = "responded"
  /\ ChunkKinds = <<"throw", "nullentry">>
  /\ response.status = 200
  /\ response.failedCount = Len(records)

(***************************************************************************)
(* C25: end to end                                                         *)
(***************************************************************************)
IncomingNames == UNION {RangeOf(ObjKeys(parsedRecords[r])) : r \in DOMAIN parsedRecords}

HoldsLiterally(f) == \E k \in DOMAIN existingFields : existingFields[k].field_name = f

HoldsNormalized(f) ==
  \E k \in DOMAIN existingFields :
    normalizeFieldName(existingFields[k].field_name) = normalizeFieldName(f)

\* a name the schema holds literally classifies exact and is never created; a
\* name the schema holds in no spelling classifies new
Classified ==
  step \in {"validation", "preview", "success"} =>
    \A f \in IncomingNames :
      /\ HoldsLiterally(f) =>
           /\ \E k \in DOMAIN validationResult.exactMatches :
                validationResult.exactMatches[k].jsonField = f
           /\ \A c \in DOMAIN createCalls : createCalls[c].field_name # f
      /\ ~HoldsNormalized(f) => f \in RangeOf(validationResult.newFields)

\* an approved new field without a caller-supplied type is created with the
\* type inferred from its first non-null value
CreatedWithInferredType ==
  Len(createCalls') = Len(createCalls) + 1 =>
    LET made == createCalls'[Len(createCalls')]
        withValue == RecordsWithValue(made.field_name)
    IN  (/\ made.field_name \in fieldMappingDecision.approvedNewFields
         /\ \A a \in AliasesOf(made.field_name) : ~MapHas(fieldTypes, a)
         /\ withValue # {}) =>
          made.type \in
            {inferFieldType(ObjGet(records[SetMin(withValue)], a)) :
               a \in {b \in AliasesOf(made.field_name) :
                        IsPresent(ObjGet(records[SetMin(withValue)], b))}}

\* a numeric string for a field created as a number earlier in the run is
\* written as the number it denotes
NumericStringWritten ==
  Len(calls') = Len(calls) + 1 =>
    LET issued == calls'[Len(calls')]
    IN  \A k \in DOMAIN issued.records :
          \A e \in SoleEntries(records[issued.start + k]) :
            LET entry == records[issued.start + k][e]
            IN  (/\ IsNumericString(entry.value)
                 /\ \E c \in DOMAIN createCalls :
                      /\ createCalls[c].ok /\ createCalls[c].type = 2
                      /\ createCalls[c].field_name = TargetOf(entry.key)) =>
                  ObjGet(issued.records[k], TargetOf(entry.key))
                    = JsNumber(StringToNumber(entry.value.v))

\* C25: a name the schema holds literally classifies exact and no field is
\* created for it; a name absent from the schema classifies new and, once
\* approved, is created with the type of its first non-null value; the
\* created field is visible to the rest of the run, so a later numeric
\* string for it is written as a number.
C25_EndToEnd ==
  [][CreatedWithInferredType /\ NumericStringWritten]_vars /\ []Classified

(***************************************************************************)
(* C26: the counters of batchCreateRecords                                 *)
(***************************************************************************)
CountersMatchLists ==
  bpc \in {"loop", "returned"} =>
    /\ Len(result.recordIds) = result.successCount
    /\ Len(result.errors) = result.failedCount

CountersNeverDecrease ==
  bpc # "off" /\ bpc' # "off" =>
    /\ result'.successCount >= result.successCount
    /\ result'.failedCount >= result.failedCount

\* C26: after every chunk processed by batchCreateRecords the result holds
\* as many record ids as successCount and as many errors as failedCount,
\* and neither counter ever decreases during the run.
C26_CountersAndLists == []CountersMatchLists /\ [][CountersNeverDecrease]_vars

(***************************************************************************)
(* C27: the success flag of the import route                               *)
(***************************************************************************)
\* C27: the route answers success == true only if every submitted record
\* was written: successCount == totalRecords and the result holds one
\* record id per submitted record.
C27_SuccessMeansAllWritten ==
  (rpc = "responded" /\ response.success) =>
    /\ response.successCount = response.totalRecords
    /\ Len(result.recordIds) = Len(records)

(***************************************************************************)
(* C28: literal names and colliding keys                                   *)
(***************************************************************************)
RemoteFieldNames == {remoteFields[k].field_name : k \in DOMAIN remoteFields}

\* C28: a record key that is literally the name of an existing remote field
\* is written under that same name, even when another existing field shares
\* its normalized form; and an outgoing record holds one entry per target.
C28_LiteralNameKept ==
  \A c \in DOMAIN calls :
    \A k \in DOMAIN calls[c].records :
      LET source == records[calls[c].start + k]
          out    == calls[c].records[k]
      IN  /\ \A e \in DOMAIN source :
               (source[e].key \in RemoteFieldNames /\ ~IsEmptyValue(source[e].value)) =>
                 /\ TargetOf(source[e].key) = source[e].key
                 /\ \A x \in DOMAIN out :
                      normalizeFieldName(out[x].key) = normalizeFieldName(source[e].key)
                        => out[x].key = source[e].key
          /\ \A x, y \in DOMAIN out : out[x].key = out[y].key => x = y

(***************************************************************************)
(* C29: type inference and URL validation                                  *)
(***************************************************************************)
C29_Entry(entry, out) ==
  LET target == TargetOf(entry.key)
  IN  inferFieldType(entry.value) = 15 =>
        /\ isValidUrl(entry.value)
        /\ target \in urlFieldNames => ObjHas(out, target)

\* C29: every value for which inferFieldType answers url is accepted by
\* isValidUrl, so a value that makes a field URL-typed is written to that
\* field and not dropped.
C29_InferenceAgreesWithCheck == ForEverySentEntry(C29_Entry)


\* ------------------------------------------------------------------- C30
\* the moves of the wizard step
StepEdges ==
  step' # step =>
    <<step, step'>> \in {<<"upload", "validation">>, <<"validation", "preview">>,
                         <<"preview", "success">>, <<"preview", "validation">>,
                         <<"validation", "upload">>, <<"success", "upload">>}

\* the validation result on screen is the one computed from the fields that
\* were read from the table and the keys of the uploaded records
SchemaReadInPlace ==
  validationResult' =
    validateFieldsAgainstExisting(
      collectJsonFields(<<>>, parsedRecords'),
      [k \in DOMAIN existingFields' |->
         [field_name |-> existingFields'[k].field_name,
          normalized_name |-> existingFields'[k].normalized_name]])

EntersValidation ==
  (step' = "validation" /\ step # "validation") =>
    /\ SchemaReadInPlace
    /\ \/ /\ step = "upload"
          /\ existingFields' = fieldsResponse(remoteFields)
          /\ pageError' = ""
       \/ /\ step = "preview"
          /\ importProgress.status # "importing"
          /\ importProgress' = IdleProgress
          /\ UNCHANGED <<existingFields, validationResult>>

EntersPreview ==
  (step' = "preview" /\ step # "preview") =>
    /\ step = "validation"
    /\ fieldMappingDecision'.isSet
    /\ fieldMappingDecision'.approvedNewFields = approvedNew

EntersSuccess ==
  (step' = "success" /\ step # "success") =>
    /\ step = "preview"
    /\ importProgress.status = "importing"
    /\ importProgress'.status = "completed"
    /\ importProgress'.total = Len(allRecords)
    /\ importProgress'.current = importProgress'.total
    /\ ~(imp.i < Len(allRecords))
    /\ importProgress'.failedCount = 0
    /\ summary'.isSet /\ summary'.failedCount = 0

StaysOnPreview ==
  (/\ importProgress.status = "importing"
   /\ importProgress'.status = "completed"
   /\ importProgress'.failedCount > 0) => (step = "preview" /\ step' = "preview")

\* a reset from the success screen clears the wizard
ResetClears ==
  (step = "success" /\ step' = "upload") =>
    /\ parsedRecords' = <<>>
    /\ importProgress' = IdleProgress
    /\ summary' = NoSummary
    /\ fieldMappingDecision' = NoDecision

\* C30: the wizard step moves only upload -> validation -> preview -> success,
\* back from preview to validation and from validation to upload by the cancel
\* buttons, and to upload by the reset; validation is entered with the result
\* of a successful schema read in place, preview only by approving the
\* validation, success only when an import has processed every record of every
\* chunk (current = total, status completed) with no failure; an import that
\* completes with failures leaves the wizard on preview
C30_WizardSteps ==
  [][/\ StepEdges
     /\ EntersValidation
     /\ EntersPreview
     /\ EntersSuccess
     /\ StaysOnPreview
     /\ ResetClears]_vars

\* a second import, started after the first one completed with failures and
\* left the wizard on preview, took the wizard to success
C30_Witness ==
  /\ step = "success"
  /\ imp.run = 2
  /\ importProgress.status = "completed"
  /\ importProgress.current = importProgress.total
  /\ summary.isSet /\ summary.failedCount = 0
====
